---------------------------- MODULE Spec2Model ----------------------------
(***************************************************************************)
(* A model of spb_arrival_bot: the static GTFS feed queries (gtfs.rs), the *)
(* dialogue handlers of one chat (tg_bot.rs) and the background polling    *)
(* tasks (look_for_transport) registered in POLL_TASKS.                    *)
(*                                                                         *)
(* Granularity.  A tokio task or a teloxide handler is an async function:  *)
(* it runs from one .await to the next without interruption by its own     *)
(* cancellation, and JoinHandle::abort takes effect at the next .await.    *)
(* A task action below is therefore one .await of the source together     *)
(* with the synchronous code that follows it.  A handler is called with    *)
(* the State read at its dispatch and stores the next State only after its *)
(* Telegram calls: the dispatch is one action, the rest of the handler up  *)
(* to its dialogue.update (or to its spawn, its registration in            *)
(* POLL_TASKS) another, so that a task can store a State in between which  *)
(* the handler then overwrites.  The runtime is multi-threaded             *)
(* (#[tokio::main]), so a spawned task runs concurrently with the handler  *)
(* that spawned it.  teloxide's dispatcher handles the updates of one chat *)
(* one after the other, so at most one handler of the chat is in progress. *)
(***************************************************************************)
EXTENDS Integers, Sequences, FiniteSets, TLC

VARIABLES
    now,          \* the wall clock, in seconds (Local::now().timestamp())
    STATIC_FEED,  \* main.rs: the shared StaticFeed
    dialogue,     \* the chat's dialogue State, as stored by teloxide
    saved,        \* saved_routes_db: the chat's SavedRoutes (name -> SavedRouteData)
    POLL_TASKS,   \* tg_bot.rs: chat id -> JoinHandle (here: task id)
    task,         \* the look_for_transport tasks spawned so far
    h,            \* the handler in progress for the chat, if any
    sent,         \* history: per task, the "leave now" notifications it delivered
    cancelled,    \* history: the tasks the search handler removed and aborted
    lastTick,     \* history: the inputs and the decision of the latest polling tick
    call          \* history: the latest call of a gtfs.rs function, with its result

vars == <<now, STATIC_FEED, dialogue, saved, POLL_TASKS, task, h, sent, cancelled, lastTick,
          call>>

---------------------------------------------------------------------------
(* Bounds of the model *)

\* The number of look_for_transport tasks spawned in one behaviour.
MaxWatches == 2

\* How many seconds pass in the scheduler specification (the clock moves one
\* polling period at a time there).
MaxElapsed == 5

\* How many seconds pass in the polling specification (second by second).
MaxLiveElapsed == 10

\* The number of rows after the header of a file of the archive.
MaxRows == 3

---------------------------------------------------------------------------
(* Program constants *)

\* tokio::time::sleep(Duration::from_secs(5))
PollPeriod == 5

\* `if time_left < 60`, `any(|&t| t < 60)`
LeaveWindow == 60

\* `leeway * 60`
SecondsPerMinute == 60

\* gtfs.rs: the seconds `timestamp += 86400` adds for a time past midnight
SecondsPerDay == 86400

ChatId == "chat"

Tasks == 1..MaxWatches

---------------------------------------------------------------------------
(* The static feed (gtfs.rs: StaticFeed).  HashMaps are functions.         *)

Get(map, key) ==                      \* HashMap::get
    IF key \in DOMAIN map THEN [some |-> TRUE, val |-> map[key]]
                          ELSE [some |-> FALSE]

TripStop(ts, stop, seqno) == [timestamp |-> ts, stop_id |-> stop, stop_sequence |-> seqno]

\* A feed whose second forward trip of route "5" is listed after the first and
\* runs earlier, serves S2 twice and shares an arrival time with the first.
FeedTwoTrips ==
    [ routes |->
        [ bus     |-> ("5" :> [id |-> "5", name |-> "A - B"]),
          tram    |-> <<>>,
          trolley |-> <<>>,
          all     |-> ("5" :> "A - B") ],
      stops  |-> ("S1" :> "FIRST") @@ ("S2" :> "SECOND"),
      trips  |-> ("5" :> [forward_trip |-> <<"T1", "T2">>, backward_trip |-> <<"T3", "T2">>]),
      stop_times |->
        ("T1" :> <<TripStop(0, "S1", 1), TripStop(300, "S2", 2)>>) @@
        ("T2" :> <<TripStop(100, "S1", 1), TripStop(250, "S2", 2), TripStop(300, "S2", 3)>>) ]

\* The service described by the feed in use.  Route "5" runs S1 -> S2 (trip
\* T1: S1 at 0, S2 at 300); it serves one direction only, and trips.txt names
\* a return trip T3 that stop_times.txt does not describe (the circular
\* routes of the comment in route_stop).  The forward trips of route "9" are
\* T4, with stop times, and T5, without.  Route "7" has a routes.txt row and
\* no trips.
FeedInUse ==
    [ routes |->
        [ bus     |-> ("5" :> [id |-> "5", name |-> "A - B"]) @@
                      ("9" :> [id |-> "9", name |-> "RING"]),
          tram    |-> ("7" :> [id |-> "7", name |-> "C - D"]),
          trolley |-> <<>>,
          all     |-> ("5" :> "A - B") @@ ("9" :> "RING") @@ ("7" :> "C - D") ],
      stops  |-> ("S1" :> "FIRST") @@ ("S2" :> "SECOND"),
      trips  |-> ("5" :> [forward_trip |-> <<"T1">>, backward_trip |-> <<"T3">>]) @@
                 ("9" :> [forward_trip |-> <<"T4", "T5">>, backward_trip |-> <<>>]),
      stop_times |->
        ("T1" :> <<TripStop(0, "S1", 1), TripStop(300, "S2", 2)>>) @@
        ("T4" :> <<TripStop(200, "S1", 1)>>) ]

---------------------------------------------------------------------------
(* gtfs.rs: the queries *)

Ok(v) == [ok |-> TRUE, val |-> v]
Err == [ok |-> FALSE, val |-> <<>>]

RECURSIVE Insert(_, _)
Insert(x, s) ==                      \* x into the ascending sequence s
    IF s = <<>> THEN <<x>>
    ELSE IF x <= Head(s) THEN <<x>> \o s
    ELSE <<Head(s)>> \o Insert(x, Tail(s))

\* A variant that leaves the order of collection.
Sort_Skipped(s) == s

RECURSIVE Sort(_)
Sort(s) == IF s = <<>> THEN <<>> ELSE Insert(Head(s), Sort(Tail(s)))   \* Vec::sort

Future(trip_info, stop_id, timestamp) ==
    LET Keep(trip_stop) == trip_stop.stop_id = stop_id /\ trip_stop.timestamp > timestamp
        kept == SelectSeq(trip_info, Keep)
    IN  [i \in 1..Len(kept) |-> kept[i].timestamp]

\* The `for trip in trip_ids` loop of arrival_timetable: the first trip without
\* stop times ends the query with an error.
RECURSIVE CollectTrips(_, _, _, _, _)
CollectTrips(feed, trip_ids, stop_id, timestamp, timetable) ==
    IF trip_ids = <<>> THEN Ok(timetable)
    ELSE LET trip_info == Get(feed.stop_times, Head(trip_ids))
         IN  IF ~trip_info.some THEN Err
             ELSE CollectTrips(feed, Tail(trip_ids), stop_id, timestamp,
                               timetable \o Future(trip_info.val, stop_id, timestamp))

arrival_timetable(feed, route_id, direction, stop_id, timestamp) ==
    LET trips == Get(feed.trips, route_id)
    IN  IF ~trips.some THEN Err
        ELSE LET trip_ids == IF direction = "0" THEN trips.val.forward_trip
                                                ELSE trips.val.backward_trip
                 got == CollectTrips(feed, trip_ids, stop_id, timestamp, <<>>)
             IN  IF got.ok THEN Ok(Sort(got.val)) ELSE Err

(* The live forecast.  A FeedMessage is a sequence of entities; an entity   *)
(* has an id and an optional trip_update, whose stop_time_update entries    *)
(* each carry an optional arrival time.                                     *)
NoArrival == [some |-> FALSE, time |-> 0]
Arrival(t) == [some |-> TRUE, time |-> t]
Entity(id, updates) == [id |-> id, trip_update |-> TRUE, stop_time_update |-> updates]
BareEntity(id) == [id |-> id, trip_update |-> FALSE, stop_time_update |-> <<>>]

RECURSIVE WaitingOfUpdates(_, _)
WaitingOfUpdates(updates, timestamp) ==
    IF updates = <<>> THEN <<>>
    ELSE LET stop_time == Head(updates)
             rest == WaitingOfUpdates(Tail(updates), timestamp)
         IN  IF stop_time.some /\ stop_time.time - timestamp > 0
             THEN <<stop_time.time - timestamp>> \o rest
             ELSE rest

RECURSIVE WaitingOfEntities(_, _, _)
WaitingOfEntities(entities, route_id, timestamp) ==
    IF entities = <<>> THEN <<>>
    ELSE LET entity == Head(entities)
             rest == WaitingOfEntities(Tail(entities), route_id, timestamp)
         IN  IF entity.id = route_id /\ entity.trip_update
             THEN WaitingOfUpdates(entity.stop_time_update, timestamp) \o rest
             ELSE rest

\* A variant that returns the arrival times instead of the time left.
arrival_forecast_Absolute(response, route_id, timestamp) ==
    IF ~response.ok THEN Err
    ELSE Ok(WaitingOfEntities(response.val, route_id, 0))

\* `response` is what the request and the decode gave: Err, or Ok(message).
arrival_forecast(response, route_id, timestamp) ==
    IF ~response.ok THEN Err
    ELSE Ok(WaitingOfEntities(response.val, route_id, timestamp))

\* stops_on_route: "panic" is HashMap::get(route_id).unwrap() on a route
\* without trips.
FirstWithStops(feed, trips) ==
    LET found == SelectSeq(trips, LAMBDA trip : trip \in DOMAIN feed.stop_times)
    IN  IF found = <<>> THEN Err
        ELSE LET stops == feed.stop_times[Head(found)]
             IN  Ok([i \in 1..Len(stops) |-> stops[i].stop_id])

stops_on_route(feed, route_id, direction) ==
    IF route_id \notin DOMAIN feed.trips THEN [ok |-> FALSE, val |-> <<>>, panic |-> TRUE]
    ELSE LET trips == IF direction = "0" THEN feed.trips[route_id].forward_trip
                                         ELSE feed.trips[route_id].backward_trip
             res == FirstWithStops(feed, trips)
         IN  [ok |-> res.ok, val |-> res.val, panic |-> FALSE]

---------------------------------------------------------------------------
(* The 64-bit integers of the leeway: a text typed in ReceiveLeewayTime is  *)
(* parsed as u64, kept as u64 in the dialogue and the database, cast to    *)
(* i64 for the watch and used in `x - (leeway * 60)`.  A 64-bit word is     *)
(* four 16-bit limbs, the least significant first; an i64 is its sign and  *)
(* its magnitude, the two's complement of its word.                        *)

Limb == 65536

\* The u64 of a number below 2^31.
u64(n) == <<n % Limb, n \div Limb, 0, 0>>

\* str::parse::<u64> on the texts the user may type; every other text,
\* 2^64 among them, is an error.
Typed ==
    ("0" :> u64(0)) @@
    ("2" :> u64(2)) @@
    ("153722867280912930" :> <<8738, 8738, 8738, 546>>) @@
    ("153722867280912931" :> <<8739, 8738, 8738, 546>>) @@
    ("307445734561825861" :> <<17477, 17476, 17476, 1092>>) @@
    ("9223372036854775807" :> <<65535, 65535, 65535, 32767>>) @@
    ("9223372036854775808" :> <<0, 0, 0, 32768>>) @@
    ("18293021206428638686" :> <<56798, 56797, 56797, 64989>>) @@
    ("18446744073709551556" :> <<65476, 65535, 65535, 65535>>) @@
    ("18446744073709551615" :> <<65535, 65535, 65535, 65535>>)

parse_u64(typed) == IF typed \in DOMAIN Typed THEN Ok(Typed[typed]) ELSE Err

\* The two's complement of a word: the magnitude of a negative i64.
wrapping_neg(word) ==
    LET n1 == (Limb - 1 - word[1]) + 1
        n2 == (Limb - 1 - word[2]) + (n1 \div Limb)
        n3 == (Limb - 1 - word[3]) + (n2 \div Limb)
        n4 == (Limb - 1 - word[4]) + (n3 \div Limb)
    IN  <<n1 % Limb, n2 % Limb, n3 % Limb, n4 % Limb>>

\* word * k for a small k: the exact product in five limbs
MulExact(word, k) ==
    LET p1 == word[1] * k
        p2 == (word[2] * k) + (p1 \div Limb)
        p3 == (word[3] * k) + (p2 \div Limb)
        p4 == (word[4] * k) + (p3 \div Limb)
    IN  <<p1 % Limb, p2 % Limb, p3 % Limb, p4 % Limb, p4 \div Limb>>

\* The sum of two words, wrapped to 64 bits.
wrapping_add(a, b) ==
    LET s1 == a[1] + b[1]
        s2 == a[2] + b[2] + (s1 \div Limb)
        s3 == a[3] + b[3] + (s2 \div Limb)
        s4 == a[4] + b[4] + (s3 \div Limb)
    IN  <<s1 % Limb, s2 % Limb, s3 % Limb, s4 % Limb>>

\* An i64 is its sign and its magnitude.  `leeway as i64`: the 64 bits of
\* a word read as two's complement, negative when the sign bit is set; and
\* the bits of an i64.
as_i64(word) ==
    IF word[4] >= Limb \div 2 THEN [neg |-> TRUE, mag |-> wrapping_neg(word)]
                              ELSE [neg |-> FALSE, mag |-> word]

to_bits(v) == IF v.neg THEN wrapping_neg(v.mag) ELSE v.mag

\* The i64 of a number between -2^31 and 2^31.
i64(n) == IF n < 0 THEN [neg |-> TRUE, mag |-> u64(0 - n)] ELSE [neg |-> FALSE, mag |-> u64(n)]

\* i64::overflowing_mul(leeway, k) for a small k > 0: the wrapped product and
\* whether the exact product lies outside i64.  (Here and below the
\* operation is a function applied to its operands, which are values then.)
overflowing_mul(leeway, k) ==
    LET mul[x \in {leeway}] ==
            LET exact == MulExact(x.mag, k)
                low == SubSeq(exact, 1, 4)
            IN  [val |-> as_i64(IF x.neg THEN wrapping_neg(low) ELSE low),
                 overflow |-> IF ~x.neg
                              THEN exact[5] # 0 \/ exact[4] >= Limb \div 2
                              ELSE \/ exact[5] # 0
                                   \/ exact[4] > Limb \div 2
                                   \/ exact[4] = Limb \div 2
                                         /\ SubSeq(exact, 1, 3) # <<0, 0, 0>>]
    IN  mul[leeway]

\* i64::overflowing_add(a, b): the wrapped sum; it overflows when the terms
\* have one sign and the sum the other
overflowing_add(a, b) ==
    LET add[x \in {a}, y \in {b}] ==
            LET sum == as_i64(wrapping_add(to_bits(x), to_bits(y)))
            IN  [val |-> sum, overflow |-> x.neg = y.neg /\ sum.neg # x.neg]
    IN  add[a, b]

\* i64::overflowing_sub(a, b): the wrapped difference; it overflows when the
\* terms differ in sign and the difference has not the sign of a
overflowing_sub(a, b) ==
    LET sub[x \in {a}, y \in {b}] ==
            LET diff == as_i64(wrapping_add(to_bits(x), wrapping_neg(to_bits(y))))
            IN  [val |-> diff, overflow |-> x.neg # y.neg /\ diff.neg # x.neg]
    IN  sub[a, b]

\* `v > 0` and, for a k of at most 2^16, `v < k`
IsPositive(v) == ~v.neg /\ v.mag # u64(0)
Below(v, k) == v.neg \/ (v.mag[1] < k /\ SubSeq(v.mag, 2, 4) = <<0, 0, 0>>)

\* The number an i64 between -2^31 and 2^31 stands for.
to_int(v) == IF v.neg THEN 0 - (v.mag[1] + (v.mag[2] * Limb)) ELSE v.mag[1] + (v.mag[2] * Limb)

---------------------------------------------------------------------------
(* tg_bot.rs: the reconciliation of one polling tick (look_for_transport,  *)
(* the body of `loop`, up to the decision).  The waiting seconds, the      *)
(* instants and the leeway are i64; where the arithmetic leaves i64 the    *)
(* value wraps (a release build) or the task panics (overflow checks).     *)

\* The waiting seconds of a forecast, or the instants of a timetable, as i64.
I64s(seq) == [i \in 1..Len(seq) |-> i64(seq[i])]

\* line 698: `.filter(|&&x| x - (leeway * 60) > 0)`
waiting_list(forecast, leeway) ==
    LET offset == overflowing_mul(leeway, SecondsPerMinute).val
    IN  SelectSeq(forecast, LAMBDA x : IsPositive(overflowing_sub(x, offset).val))

\* A variant that keeps the entry at the threshold itself.
next_on_timetable_Inclusive(timetable, time) ==
    LET later == SelectSeq(timetable, LAMBDA t : ~overflowing_sub(t, time).val.neg)
    IN  [i \in 1..Len(later) |-> overflowing_sub(later[i], time).val]

\* lines 710-713: `.filter_map(|t| if t - time > 0 { Some(t - time) } else { None })`
next_on_timetable(timetable, time) ==
    LET later == SelectSeq(timetable, LAMBDA t : IsPositive(overflowing_sub(t, time).val))
    IN  [i \in 1..Len(later) |-> overflowing_sub(later[i], time).val]

\* `.iter().any(|&t| t < 60)` and the `for time in waiting_list` loop with
\* its `time.checked_sub(leeway * 60)`, which passes over an entry whose
\* difference leaves i64, and its `time_left < 60` test.
any_within(times, offset) ==
    \E i \in DOMAIN times :
       LET time_left == overflowing_sub(times[i], offset)
       IN  ~time_left.overflow /\ Below(time_left.val, LeaveWindow)

\* A variant that consults the timetable whenever the forecast does not fire.
Reconcile_FallsThrough(forecast, timetable, local_now, leeway) ==
    LET offset == overflowing_mul(leeway, SecondsPerMinute).val
    IN  IF forecast.ok /\ any_within(waiting_list(I64s(forecast.val), leeway), offset)
        THEN "live"
        ELSE IF forecast.ok
                /\ any_within(next_on_timetable(I64s(timetable),
                                  overflowing_add(i64(local_now), offset).val), i64(0))
        THEN "schedule" ELSE "wait"

\* A variant whose fallback threshold leaves the leeway out.
Reconcile_NoLeeway(forecast, timetable, local_now, leeway) ==
    LET offset == overflowing_mul(leeway, SecondsPerMinute).val
    IN  IF ~forecast.ok THEN "wait"
        ELSE IF waiting_list(I64s(forecast.val), leeway) = <<>>
        THEN IF any_within(next_on_timetable(I64s(timetable), i64(local_now)), i64(0))
             THEN "schedule" ELSE "wait"
        ELSE IF any_within(waiting_list(I64s(forecast.val), leeway), offset)
             THEN "live" ELSE "wait"

\* "live": `Signalled by actual data`; "schedule": `Yielded by timetable`;
\* "wait": fall through to the sleep.
Reconcile(forecast, timetable, local_now, leeway) ==
    LET offset == overflowing_mul(leeway, SecondsPerMinute).val      \* `leeway * 60`
        time == overflowing_add(i64(local_now), offset).val          \* line 709
        waiting == waiting_list(I64s(forecast.val), leeway)
    IN  IF ~forecast.ok THEN "wait"                      \* `if let Ok(forecast)`
        ELSE IF waiting = <<>>
        THEN IF any_within(next_on_timetable(I64s(timetable), time), i64(0))
             THEN "schedule" ELSE "wait"
        ELSE IF any_within(waiting, offset)
             THEN "live" ELSE "wait"

\* The arithmetic of one tick that leaves i64: `leeway * 60` (lines 698, 709
\* and 741), `x - (leeway * 60)` of the filter (line 698) and, where the
\* waiting list is empty, `Local::now().timestamp() + (leeway * 60)` and
\* `t - time` (lines 709-712).  Nothing is computed on a failed forecast.
overflow_checks(forecast, timetable, local_now, leeway) ==
    LET offset == overflowing_mul(leeway, SecondsPerMinute)
        time == overflowing_add(i64(local_now), offset.val)
    IN  [mul |-> forecast.ok /\ offset.overflow,
         sub |-> forecast.ok
                 /\ \E i \in DOMAIN forecast.val :
                       overflowing_sub(i64(forecast.val[i]), offset.val).overflow,
         fallback |-> forecast.ok
                      /\ waiting_list(I64s(forecast.val), leeway) = <<>>
                      /\ \/ time.overflow
                         \/ \E i \in DOMAIN timetable :
                               overflowing_sub(i64(timetable[i]), time.val).overflow]

---------------------------------------------------------------------------
(* State *)

\* The dialogue State.  The fields a variant does not carry are "" or 0;
\* leeway is a u64.
\* bot_msg: message 0 is the one bot_start sends, message t > 0 is the
\* notification of task t.  For the variants that carry no bot_msg in the
\* source the field is the message showing the current keyboard, which is
\* the q.message of the next callback query.
St(state, route_id, stop_id, direction, leeway, bot_msg) ==
    [state |-> state, route_id |-> route_id, stop_id |-> stop_id,
     direction |-> direction, leeway |-> leeway, bot_msg |-> bot_msg]

Plain(state, bot_msg) == St(state, "", "", "", u64(0), bot_msg)

SavedRouteData(d) ==
    [route_id |-> d.route_id, stop_id |-> d.stop_id,
     direction |-> d.direction, leeway |-> d.leeway]

\* The arguments of a task are those of the State, with the leeway as i64.
NoTask == [pc |-> "none", q |-> [SavedRouteData(Plain("", 0)) EXCEPT !.leeway = i64(0)],
           timetable |-> <<>>, path |-> "none", wake |-> 0]

Idle == [name |-> "idle", pc |-> "", bot_msg |-> 0, jh |-> 0, data |-> "",
         from |-> Plain("", 0)]

NoCall == [fn |-> "none"]

NoTick == [task |-> 0, time |-> 0, forecast |-> Err, timetable |-> <<>>,
           leeway |-> i64(0), decision |-> "none",
           overflow |-> [mul |-> FALSE, sub |-> FALSE, fallback |-> FALSE]]

\* A task that was spawned and has neither returned nor been aborted.
Alive(tk) ==
    tk.pc \notin {"none", "ok", "failed_timetable", "failed_delivery", "panicked", "aborted"}

---------------------------------------------------------------------------
(* tg_bot.rs: look_for_transport, one action per .await                    *)

\* A variant in which the abort is lost.
AbortTask_Lost(tk, t) == tk

\* JoinHandle::abort: a task that has not returned is dropped at its .await
\* and runs no further; aborting a finished task does nothing.
AbortTask(tk, t) ==
    IF Alive(tk[t]) THEN [tk EXCEPT ![t] = [NoTask EXCEPT !.pc = "aborted"]] ELSE tk

\* The task returns: "ok" is Ok(()), "failed_timetable" the `?` of line 692,
\* "failed_delivery" a `?` of lines 732-735 or 752-759, "panicked" an
\* arithmetic overflow under overflow checks.  Its future is gone.
Returned(tk, t, result) == [tk EXCEPT ![t] = [NoTask EXCEPT !.pc = result]]

\* tokio::spawn(look_for_transport(bot, dialogue, (route_id, stop_id, direction, leeway, bot_msg)))
\* with `leeway as i64` (lines 290, 587 and 639)
SpawnTask(tk, t, q) ==
    [tk EXCEPT ![t] = [NoTask EXCEPT !.pc = "timetable",
                                     !.q = [q EXCEPT !.leeway = as_i64(q.leeway)]]]

FreeTasks == {t \in Tasks : task[t].pc = "none"}
NextTask == CHOOSE t \in FreeTasks : \A u \in FreeTasks : t <= u

\* line 692: `gtfs::arrival_timetable(..).await?`
look_for_transport_timetable(t) ==
    /\ task[t].pc = "timetable"
    /\ LET q == task[t].q
           timetable == arrival_timetable(STATIC_FEED, q.route_id, q.direction, q.stop_id, now)
       IN  task' = IF timetable.ok
                   THEN [task EXCEPT ![t].pc = "poll", ![t].timetable = timetable.val]
                   ELSE Returned(task, t, "failed_timetable")
    /\ UNCHANGED <<now, STATIC_FEED, dialogue, saved, POLL_TASKS, h, sent, cancelled, lastTick, call>>

\* lines 695-766: one polling tick, from the forecast's arrival to the
\* decision; `responses` are the answers the live endpoint may give, and the
\* tick is recorded in lastTick where it is `observed`.  Where the
\* arithmetic of the tick overflows, a build with overflow checks panics,
\* which ends the task and nothing else; a build without them goes on with
\* the wrapped values.
look_for_transport_poll(t, responses, observed) ==
    /\ task[t].pc = "poll"
    /\ \E response \in responses :
         LET q == task[t].q
             forecast == arrival_forecast(response, q.route_id, now)
         IN  \E overflow \in {overflow_checks(forecast, task[t].timetable, now, q.leeway)} :
             \E decision \in {Reconcile(forecast, task[t].timetable, now, q.leeway)}
                   \cup IF overflow.mul \/ overflow.sub \/ overflow.fallback
                        THEN {"panic"} ELSE {} :
             /\ task' = IF decision = "wait"
                        THEN [task EXCEPT ![t].pc = "sleep", ![t].wake = now + PollPeriod]
                        ELSE IF decision = "panic"
                        THEN Returned(task, t, "panicked")
                        ELSE [task EXCEPT ![t].pc = "delete", ![t].path = decision]
             /\ lastTick' = IF observed
                            THEN [task |-> t, time |-> now, forecast |-> forecast,
                                  timetable |-> task[t].timetable, leeway |-> q.leeway,
                                  decision |-> decision, overflow |-> overflow]
                            ELSE lastTick
    /\ UNCHANGED <<now, STATIC_FEED, dialogue, saved, POLL_TASKS, h, sent, cancelled, call>>

\* line 766: the sleep is over
look_for_transport_wake(t) ==
    /\ task[t].pc = "sleep"
    /\ now >= task[t].wake
    /\ task' = [task EXCEPT ![t].pc = "poll"]
    /\ UNCHANGED <<now, STATIC_FEED, dialogue, saved, POLL_TASKS, h, sent, cancelled, lastTick, call>>

\* lines 732, 752: `bot.delete_message(dialogue.chat_id(), bot_msg).await?`
look_for_transport_delete(t) ==
    /\ task[t].pc = "delete"
    /\ \E delivered \in BOOLEAN :
         task' = IF delivered THEN [task EXCEPT ![t].pc = "send"] ELSE Returned(task, t, "failed_delivery")
    /\ UNCHANGED <<now, STATIC_FEED, dialogue, saved, POLL_TASKS, h, sent, cancelled, lastTick, call>>

\* lines 733, 753-757: `bot.send_message(..).reply_markup(keyboard).await?.id`
look_for_transport_send(t) ==
    /\ task[t].pc = "send"
    /\ \E delivered \in BOOLEAN :
         IF delivered
         THEN /\ sent' = [sent EXCEPT ![t] = Append(@, task[t].path)]
              /\ task' = [task EXCEPT ![t].pc = "update"]
         ELSE /\ sent' = sent
              /\ task' = Returned(task, t, "failed_delivery")
    /\ UNCHANGED <<now, STATIC_FEED, dialogue, saved, POLL_TASKS, h, cancelled, lastTick, call>>

\* lines 735-737, 759-760: `dialogue.update(State::Start { bot_msg }).await?; return Ok(())`
look_for_transport_update(t) ==
    /\ task[t].pc = "update"
    /\ \E stored \in BOOLEAN :
         IF stored
         THEN /\ dialogue' = Plain("Start", t)
              /\ task' = Returned(task, t, "ok")
         ELSE /\ dialogue' = dialogue
              /\ task' = Returned(task, t, "failed_delivery")
    /\ UNCHANGED <<now, STATIC_FEED, saved, POLL_TASKS, h, sent, cancelled, lastTick, call>>

\* Time passes.
Advance(step, limit) ==
    /\ now + step <= limit
    /\ now' = now + step
    /\ UNCHANGED <<STATIC_FEED, dialogue, saved, POLL_TASKS, task, h, sent, cancelled, lastTick, call>>

\* Time passes until one of the given instants.
AdvanceTo(instants) ==
    /\ \E i \in instants : i > now /\ now' = i
    /\ UNCHANGED <<STATIC_FEED, dialogue, saved, POLL_TASKS, task, h, sent, cancelled, lastTick, call>>

---------------------------------------------------------------------------
(* tg_bot.rs: the dispatcher (schema) and what the user may send           *)

Names == {"home", "new_route"}               \* the names the user gives to saved routes
UserRoutes == {"5"}     \* the route buttons and route numbers the user picks

\* str::to_uppercase on the texts the user types
to_uppercase(text) == IF text = "x" THEN "X" ELSE text

Message(text) == [kind |-> "message", data |-> text]
Callback(data) == [kind |-> "callback", data |-> data]

\* schema(): the endpoint an update is routed to in a dialogue state
Endpoint(state, u) ==
    IF u.kind = "message"
    THEN IF u.data = "/start" THEN "bot_start"
         ELSE CASE state = "BotStart"          -> "bot_start"
                [] state = "RouteNumber"       -> "route_number"
                [] state = "ReceiveLeewayTime" -> "receive_leeway_time"
                [] state = "SaveQueryName"     -> "save_query_name"
                [] OTHER                       -> "delete_unexpected"
    ELSE CASE state = "Start"             -> "start"
           [] state = "NewOrSaved"        -> "new_or_saved"
           [] state = "DeleteRecord"      -> "delete_record"
           [] state = "RouteDirection"    -> "route_direction"
           [] state = "RouteStop"         -> "route_stop"
           [] state = "RequestLeewayTime" -> "request_leeway_time"
           [] state = "SaveQuery"         -> "save_query"
           [] state = "Search"            -> "search"
           [] OTHER                       -> "none"

\* The updates the user sends in a dialogue state: the command, a text (for
\* the leeway one of `leeways`), or a press on one of the buttons on display.
Updates(state, leeways) ==
    {Message("/start")}
    \cup (CASE state = "RouteNumber"       -> {Message(n) : n \in UserRoutes \cup {"x"}}
            [] state = "ReceiveLeewayTime" -> {Message(n) : n \in leeways}
            [] state = "SaveQueryName"     -> {Message(n) : n \in Names}
            [] state = "Start"             -> {Message("x"), Callback("new")}
            [] state = "NewOrSaved"        ->
                   {Callback(c) : c \in {"start", "new_route", "delete"} \cup DOMAIN saved}
            [] state = "DeleteRecord"      -> {Callback(n) : n \in Names}
            [] state = "RouteDirection"    -> {Callback(r) : r \in UserRoutes}
            [] state = "RouteStop"         -> {Callback("0"), Callback("1")}
            [] state = "RequestLeewayTime" -> {Callback("S2")}
            [] state = "SaveQuery"         -> {Callback("yes"), Callback("no")}
            [] state = "Search"            -> {Callback("cancel")}
            [] OTHER                       -> {})

\* dialogue::enter and schema(): an update of the user arrives while no
\* handler of the chat is in progress; the dispatcher reads the stored
\* dialogue, routes the update to the endpoint of its state and calls the
\* handler with the fields of that state.  `from` is the State the handler
\* was called with, `data` the text or the callback data.  The handler then
\* runs through its awaits while the tasks go on.
dispatch_with(endpoints, leeways) ==
    /\ h = Idle
    /\ \E u \in Updates(dialogue.state, leeways) :
         /\ Endpoint(dialogue.state, u) \in endpoints
         /\ h' = [name |-> Endpoint(dialogue.state, u), pc |-> "run",
                  bot_msg |-> dialogue.bot_msg, jh |-> 0, data |-> u.data, from |-> dialogue]
    /\ UNCHANGED <<now, STATIC_FEED, dialogue, saved, POLL_TASKS, task, sent, cancelled,
                   lastTick, call>>

\* The same with the leeway texts of the scheduler specifications: a number
\* and a word.
dispatch_to(endpoints) == dispatch_with(endpoints, {"2", "x"})

\* An update of any kind, routed to any endpoint of schema().
dispatch ==
    dispatch_to({"bot_start", "start", "new_or_saved", "delete_record", "route_number",
                 "route_direction", "route_stop", "request_leeway_time",
                 "receive_leeway_time", "save_query", "save_query_name", "search",
                 "delete_unexpected"})

\* The handler `name` has been called and has not yet returned.
Running(name) == h.name = name /\ h.pc = "run"

\* The handler returns; `stored` tells whether it reached dialogue.update
\* and the update succeeded (any `?` before it returns early).
Return(next, stored) ==
    /\ h' = Idle
    /\ dialogue' = IF stored THEN next ELSE dialogue

\* The same for the handlers of a text message (route_number,
\* receive_leeway_time, save_query_name): once the State is stored, the
\* user's message is still to be deleted; a `?` before that returns at once.
StoreThenDelete(next, stored) ==
    /\ h' = IF stored THEN [h EXCEPT !.pc = "delete"] ELSE Idle
    /\ dialogue' = IF stored THEN next ELSE dialogue

\* `bot.delete_message(dialogue.chat_id(), msg.id).await?; Ok(())`
\* (lines 391-392, 542-543, 652-653)
delete_message ==
    /\ h.name \in {"route_number", "receive_leeway_time", "save_query_name"}
    /\ h.pc = "delete"
    /\ h' = Idle
    /\ UNCHANGED <<now, STATIC_FEED, dialogue, saved, POLL_TASKS, task, sent, cancelled,
                   lastTick, call>>

---------------------------------------------------------------------------
(* tg_bot.rs: the handlers that move the dialogue.  After its dispatch a   *)
(* handler makes its Telegram calls and then its dialogue.update, which    *)
(* writes the State computed from the fields the handler was called with,  *)
(* whatever a task has stored in between.  What a handler changes before   *)
(* (the saved routes) or does after that (deleting the user's message) is  *)
(* a step of its own, and every `?` on the way returns with what has been  *)
(* changed so far.                                                         *)

bot_start ==
    /\ Running("bot_start")
    /\ \E stored \in BOOLEAN : Return(Plain("NewOrSaved", 0), stored)
    /\ UNCHANGED <<now, STATIC_FEED, saved, POLL_TASKS, task, sent, cancelled, lastTick, call>>

start ==
    /\ Running("start")
    /\ \E stored \in BOOLEAN : Return(Plain("NewOrSaved", h.from.bot_msg), stored)
    /\ UNCHANGED <<now, STATIC_FEED, saved, POLL_TASKS, task, sent, cancelled, lastTick, call>>

\* new_or_saved, the branches that start no watch (lines 256-267, 304-313)
new_or_saved_menu ==
    /\ Running("new_or_saved")
    /\ h.data = "delete" \/ h.data \notin DOMAIN saved
    /\ \E stored \in BOOLEAN :
         Return(IF h.data = "delete" THEN Plain("DeleteRecord", h.from.bot_msg)
                                     ELSE Plain("RouteNumber", h.from.bot_msg), stored)
    /\ UNCHANGED <<now, STATIC_FEED, saved, POLL_TASKS, task, sent, cancelled, lastTick, call>>

\* HashMap::remove
RemoveKey(map, key) == [k \in DOMAIN map \ {key} |-> map[k]]
\* HashMap::insert
InsertKey(map, key, val) == [k \in DOMAIN map \cup {key} |-> IF k = key THEN val ELSE map[k]]

\* delete_record, lines 320-323: the callback is answered and the route is
\* removed from the saved ones; the `?` of answer_callback_query or of
\* remove_route_from_saved returns with nothing removed.
delete_record ==
    /\ Running("delete_record")
    /\ \E removed \in BOOLEAN :
         IF removed
         THEN /\ saved' = RemoveKey(saved, h.data)
              /\ h' = [h EXCEPT !.pc = "finish"]
         ELSE /\ saved' = saved
              /\ h' = Idle
    /\ UNCHANGED <<now, STATIC_FEED, dialogue, POLL_TASKS, task, sent, cancelled, lastTick,
                   call>>

\* delete_record, lines 325-337: the message is edited and Start is stored,
\* while the route is already gone.
delete_record_finish ==
    /\ h.name = "delete_record" /\ h.pc = "finish"
    /\ \E stored \in BOOLEAN : Return(Plain("Start", h.from.bot_msg), stored)
    /\ UNCHANGED <<now, STATIC_FEED, saved, POLL_TASKS, task, sent, cancelled, lastTick, call>>

route_number ==
    /\ Running("route_number")
    /\ \E stored \in BOOLEAN :
         LET number == to_uppercase(h.data)
             routes == STATIC_FEED.routes
             found == number \in DOMAIN routes.bus \cup DOMAIN routes.trolley
                                 \cup DOMAIN routes.tram
         IN  StoreThenDelete(IF found THEN Plain("RouteDirection", h.from.bot_msg)
                                      ELSE Plain("RouteNumber", h.from.bot_msg), stored)
    /\ UNCHANGED <<now, STATIC_FEED, saved, POLL_TASKS, task, sent, cancelled, lastTick, call>>

route_direction ==
    /\ Running("route_direction")
    /\ \E stored \in BOOLEAN :
         Return(St("RouteStop", h.data, "", "", u64(0), h.from.bot_msg),
                stored /\ h.data \in DOMAIN STATIC_FEED.routes.all)   \* route_name(..)?
    /\ UNCHANGED <<now, STATIC_FEED, saved, POLL_TASKS, task, sent, cancelled, lastTick, call>>

\* route_stop with its retry in the opposite direction (lines 432-463).  The
\* handler ends in one of three ways: "ok" after dialogue.update, "error" on
\* the `?` of answer_callback_query (before any query), of stop_name, of
\* edit_message_text or of dialogue.update, and "panic" when stops_on_route
\* unwraps None or `stops.unwrap()` meets the Err of the second attempt.
\* Where it is `observed`, the step is recorded in call.
route_stop_on(observed) ==
    /\ Running("route_stop")
    /\ \E answered \in BOOLEAN, stored \in BOOLEAN :
         LET route_id == h.from.route_id
             first == stops_on_route(STATIC_FEED, route_id, h.data)
             flipped == IF h.data = "0" THEN "1" ELSE "0"
             direction == IF first.ok THEN h.data ELSE flipped
             stops == IF first.ok THEN first
                      ELSE stops_on_route(STATIC_FEED, route_id, flipped)
             named == \A i \in 1..Len(stops.val) : stops.val[i] \in DOMAIN STATIC_FEED.stops
             outcome == IF ~answered THEN "error"
                        ELSE IF first.panic \/ ~stops.ok THEN "panic"
                        ELSE IF named /\ stored THEN "ok" ELSE "error"
         IN  /\ Return(St("RequestLeewayTime", route_id, "", direction, u64(0), h.from.bot_msg),
                       outcome = "ok")
             /\ call' = IF observed
                        THEN [fn |-> "route_stop", route_id |-> route_id,
                              pressed |-> h.data, answered |-> answered,
                              direction |-> direction, outcome |-> outcome]
                        ELSE call
    /\ UNCHANGED <<now, STATIC_FEED, saved, POLL_TASKS, task, sent, cancelled, lastTick>>

route_stop == route_stop_on(FALSE)

request_leeway_time ==
    /\ Running("request_leeway_time")
    /\ \E stored \in BOOLEAN :
         Return(St("ReceiveLeewayTime", h.from.route_id, h.data, h.from.direction, u64(0),
                   h.from.bot_msg), stored)
    /\ UNCHANGED <<now, STATIC_FEED, saved, POLL_TASKS, task, sent, cancelled, lastTick, call>>

receive_leeway_time ==
    /\ Running("receive_leeway_time")
    /\ \E stored \in BOOLEAN :
         LET leeway_minutes == parse_u64(h.data)        \* line 505
         IN  StoreThenDelete(IF leeway_minutes.ok
                             THEN St("SaveQuery", h.from.route_id, h.from.stop_id,
                                     h.from.direction, leeway_minutes.val, h.from.bot_msg)
                             ELSE h.from, stored)
    /\ UNCHANGED <<now, STATIC_FEED, saved, POLL_TASKS, task, sent, cancelled, lastTick, call>>

\* save_query, the "yes" branch (lines 557-568)
save_query_yes ==
    /\ Running("save_query")
    /\ h.data = "yes"
    /\ \E stored \in BOOLEAN : Return([h.from EXCEPT !.state = "SaveQueryName"], stored)
    /\ UNCHANGED <<now, STATIC_FEED, saved, POLL_TASKS, task, sent, cancelled, lastTick, call>>

\* delete_unexpected deletes the user's message and stores nothing.
delete_unexpected ==
    /\ Running("delete_unexpected")
    /\ h' = Idle
    /\ UNCHANGED <<now, STATIC_FEED, dialogue, saved, POLL_TASKS, task, sent, cancelled,
                   lastTick, call>>

---------------------------------------------------------------------------
(* tg_bot.rs: the handlers that start a watch (new_or_saved lines 268-303, *)
(* save_query lines 569-598, save_query_name lines 611-650) and the one    *)
(* that cancels it (search).  They run concurrently with the tasks: one    *)
(* action per step.                                                        *)

\* The message is edited and the task is spawned: tokio::spawn returns at
\* once and the new task runs from here on.
SpawnWatch(name, q) ==
    \E edited \in BOOLEAN :
      IF edited
      THEN /\ FreeTasks # {}
           /\ task' = SpawnTask(task, NextTask, q)
           /\ h' = [h EXCEPT !.pc = "register", !.jh = NextTask]
      ELSE /\ task' = task
           /\ h' = Idle

new_or_saved_spawn ==
    /\ Running("new_or_saved")
    /\ h.data # "delete" /\ h.data \in DOMAIN saved
    /\ SpawnWatch("new_or_saved", saved[h.data])
    /\ UNCHANGED <<now, STATIC_FEED, dialogue, saved, POLL_TASKS, sent, cancelled, lastTick, call>>

save_query_spawn ==
    /\ Running("save_query")
    /\ h.data # "yes"
    /\ SpawnWatch("save_query", SavedRouteData(h.from))
    /\ UNCHANGED <<now, STATIC_FEED, dialogue, saved, POLL_TASKS, sent, cancelled, lastTick, call>>

\* save_query_name, lines 611-621: the route is saved under the typed name
\* before anything is awaited; the `?` of add_route_to_saved returns with
\* nothing saved.
save_query_name_add ==
    /\ Running("save_query_name")
    /\ \E added \in BOOLEAN :
         IF added
         THEN /\ saved' = InsertKey(saved, h.data, SavedRouteData(h.from))
              /\ h' = [h EXCEPT !.pc = "edit"]
         ELSE /\ saved' = saved
              /\ h' = Idle
    /\ UNCHANGED <<now, STATIC_FEED, dialogue, POLL_TASKS, task, sent, cancelled, lastTick,
                   call>>

\* save_query_name, lines 623-640
save_query_name_spawn ==
    /\ h.name = "save_query_name" /\ h.pc = "edit"
    /\ SpawnWatch("save_query_name", SavedRouteData(h.from))
    /\ UNCHANGED <<now, STATIC_FEED, dialogue, saved, POLL_TASKS, sent, cancelled, lastTick,
                   call>>

\* `if let Some(task) = POLL_TASKS.lock().await.insert(chat_id, polling_handle) { task.abort(); }`
register_watch ==
    /\ h.name \in {"new_or_saved", "save_query", "save_query_name"}
    /\ h.pc = "register"
    /\ POLL_TASKS' = InsertKey(POLL_TASKS, ChatId, h.jh)
    /\ task' = IF ChatId \in DOMAIN POLL_TASKS THEN AbortTask(task, POLL_TASKS[ChatId]) ELSE task
    /\ h' = [h EXCEPT !.pc = "update"]
    /\ UNCHANGED <<now, STATIC_FEED, dialogue, saved, sent, cancelled, lastTick, call>>

\* `dialogue.update(State::Search { bot_msg }).await?`
enter_search ==
    /\ h.name \in {"new_or_saved", "save_query", "save_query_name"}
    /\ h.pc = "update"
    /\ \E stored \in BOOLEAN :
         IF h.name = "save_query_name"
         THEN StoreThenDelete(Plain("Search", h.bot_msg), stored)
         ELSE Return(Plain("Search", h.bot_msg), stored)
    /\ UNCHANGED <<now, STATIC_FEED, saved, POLL_TASKS, task, sent, cancelled, lastTick, call>>

\* search, lines 662-667: the callback is answered, the entry is removed and
\* its task aborted
search_cancel ==
    /\ Running("search")
    /\ h.data = "cancel"
    /\ ChatId \in DOMAIN POLL_TASKS
    /\ POLL_TASKS' = RemoveKey(POLL_TASKS, ChatId)
    /\ task' = AbortTask(task, POLL_TASKS[ChatId])
    /\ cancelled' = cancelled \cup {POLL_TASKS[ChatId]}
    /\ h' = [h EXCEPT !.pc = "finish"]
    /\ UNCHANGED <<now, STATIC_FEED, dialogue, saved, sent, lastTick, call>>

\* search, lines 662 and 681-683: on the `?` of answer_callback_query the
\* handler returns with the entry kept and the task running; with another
\* data or without an entry it returns Ok(()).  It stores nothing.
search_ignored ==
    /\ Running("search")
    /\ \E answered \in BOOLEAN :
         ~answered \/ h.data # "cancel" \/ ChatId \notin DOMAIN POLL_TASKS
    /\ h' = Idle
    /\ UNCHANGED <<now, STATIC_FEED, dialogue, saved, POLL_TASKS, task, sent, cancelled,
                   lastTick, call>>

\* search, lines 669-680
search_finish ==
    /\ h.name = "search" /\ h.pc = "finish"
    /\ \E stored \in BOOLEAN : Return(Plain("Start", h.bot_msg), stored)
    /\ UNCHANGED <<now, STATIC_FEED, saved, POLL_TASKS, task, sent, cancelled, lastTick, call>>

---------------------------------------------------------------------------
(* The scheduler specification: one chat, its handlers and its tasks       *)

\* The forward trip of route "5" reaches S2 at 300; the clock starts shortly
\* before the end of the leave window of a two-minute leeway.
SchedStart == 300 - (2 * SecondsPerMinute) - 4

\* What the live endpoint answers: a failure, no entity, or the watched
\* route arriving in 179 seconds.
SchedResponses(route_id) ==
    {Err, Ok(<<>>), Ok(<<Entity(route_id, <<Arrival(now + 179)>>)>>)}

Init ==
    /\ now = SchedStart
    /\ STATIC_FEED = FeedInUse
    /\ dialogue = Plain("BotStart", 0)
    /\ saved = <<>>
    /\ POLL_TASKS = <<>>
    /\ task = [t \in Tasks |-> NoTask]
    /\ h = Idle
    /\ sent = [t \in Tasks |-> <<>>]
    /\ cancelled = {}
    /\ lastTick = NoTick
    /\ call = NoCall

Handlers ==
    \/ dispatch
    \/ bot_start
    \/ start
    \/ new_or_saved_menu
    \/ delete_record
    \/ delete_record_finish
    \/ route_number
    \/ route_direction
    \/ route_stop
    \/ request_leeway_time
    \/ receive_leeway_time
    \/ save_query_yes
    \/ delete_unexpected
    \/ delete_message
    \/ new_or_saved_spawn
    \/ save_query_spawn
    \/ save_query_name_add
    \/ save_query_name_spawn
    \/ register_watch
    \/ enter_search
    \/ search_cancel
    \/ search_ignored
    \/ search_finish

Watch(t, responses, observed) ==
    \/ look_for_transport_timetable(t)
    \/ look_for_transport_poll(t, responses, observed)
    \/ look_for_transport_wake(t)
    \/ look_for_transport_delete(t)
    \/ look_for_transport_send(t)
    \/ look_for_transport_update(t)

Next ==
    \/ Handlers
    \/ \E t \in Tasks : Watch(t, SchedResponses(task[t].q.route_id), FALSE)
    \/ Advance(PollPeriod, SchedStart + MaxElapsed)

Spec == Init /\ [][Next]_vars

---------------------------------------------------------------------------
(* The reconciliation specification: one watch, started from the SaveQuery *)
(* state for one of several queries, polled second by second against a    *)
(* wider range of forecasts.  Every tick is recorded in lastTick.          *)

Query(route_id, stop_id, direction, leeway) ==
    [route_id |-> route_id, stop_id |-> stop_id, direction |-> direction,
     leeway |-> u64(leeway)]

\* S2 on route "5" (timetable <<300>>) with a leeway of one and of two minutes;
\* S1 on route "5" (served at 0, in the past: an empty timetable); the return
\* direction of route "5", route "9" and route "7" (no timetable: an error).
TickQueries ==
    { Query("5", "S2", "0", 2), Query("5", "S2", "0", 1), Query("5", "S1", "0", 2),
      Query("5", "S2", "1", 2), Query("9", "S1", "0", 2), Query("7", "S2", "0", 2) }

\* The clock starts three minutes before route "5" reaches S2 (at 300) and
\* stops at the instants around which the decisions for S2 change: with a
\* leeway of two minutes the timetable entry is 60, 59, 1, 0 and -1 seconds
\* beyond now + leeway * 60 at 120, 121, 179, 180 and 181.
TickStart == 300 - (3 * SecondsPerMinute)

\* What the live endpoint answers: a failure, no entity, or an arrival in so
\* many seconds.
TickResponses(route_id) ==
    {Err, Ok(<<>>)}
    \cup {Ok(<<Entity(route_id, <<Arrival(now + w)>>)>>) :
            w \in {60, 61, 119, 120, 121, 179, 180}}
    \cup {Ok(<<Entity(route_id, <<Arrival(now + 180), Arrival(now + 179)>>)>>),
          Ok(<<Entity("other", <<Arrival(now + 179)>>), BareEntity(route_id)>>),
          Ok(<<Entity(route_id, <<NoArrival, Arrival(now - 5)>>)>>)}

InitTick ==
    /\ now = TickStart
    /\ STATIC_FEED = FeedInUse
    /\ \E q \in TickQueries :
         dialogue = St("SaveQuery", q.route_id, q.stop_id, q.direction, q.leeway, 0)
    /\ saved = <<>>
    /\ POLL_TASKS = <<>>
    /\ task = [t \in Tasks |-> NoTask]
    /\ h = Idle
    /\ sent = [t \in Tasks |-> <<>>]
    /\ cancelled = {}
    /\ lastTick = NoTick
    /\ call = NoCall

NextTick ==
    \/ dispatch_to({"save_query"})
    \/ save_query_yes
    \/ save_query_spawn
    \/ register_watch
    \/ enter_search
    \/ \E t \in Tasks : Watch(t, TickResponses(task[t].q.route_id), TRUE)
    \/ AdvanceTo({TickStart + 1, TickStart + 59, TickStart + 60, TickStart + 61})

SpecTick == InitTick /\ [][NextTick]_vars

---------------------------------------------------------------------------
(* Claims about the watch lifecycle, checked under Spec                    *)

\* Tasks are numbered in the order they are spawned: a < b means that a was
\* spawned before b.
FirstPoll(b) ==
    /\ task[b].pc = "poll"
    /\ task[b].wake = 0
    /\ task'[b].pc # "poll"

\* C1: when a session that has a running watch A starts a watch B, A is
\* cancelled before B performs its first poll, and A emits no notification
\* once B has been started.
C1_SupersedeBeforeFirstPoll ==
    [][\A a, b \in Tasks :
         a < b =>
           /\ FirstPoll(b) => ~Alive(task[a])
           /\ task[b].pc # "none" => sent'[a] = sent[a]]_vars

\* C2: at every moment at most one watch task of the session is running.
C2_AtMostOneAliveTask == Cardinality({t \in Tasks : Alive(task[t])}) <= 1

\* C3: once the cancel handler has removed and aborted a session's watch,
\* that watch emits no notification and does not write the dialogue state,
\* wherever in its polling or delivery it was.
C3_CancelledWatchIsSilent ==
    [][\A t \in cancelled :
         /\ sent'[t] = sent[t]
         /\ ~(task[t].pc = "update" /\ task'[t].pc = "ok")]_vars

\* A watch cancelled between sending its notification and storing Start.
C3_CancelledMidDelivery ==
    \E t \in cancelled : task[t].pc = "aborted" /\ sent[t] # <<>> /\ dialogue.state = "Start"

\* C4: a watch emits at most one notification, a watch that ended by firing
\* emitted exactly one (live or schedule), and no two watches of the session
\* that run at the same time both emit one.
C4_OneNotificationPerWatch ==
    /\ \A t \in Tasks :
         /\ Len(sent[t]) <= 1
         /\ task[t].pc = "ok" => Len(sent[t]) = 1 /\ sent[t][1] \in {"live", "schedule"}
    /\ \A a, b \in Tasks :
         (a # b /\ Alive(task[a]) /\ Alive(task[b])) => (sent[a] = <<>> \/ sent[b] = <<>>)

\* C5: no error ends a watch: a watch task ends only by firing or by being
\* aborted.
C5_ErrorsNeverEndTheWatch ==
    \A t \in Tasks : task[t].pc \notin {"failed_timetable", "failed_delivery"}

---------------------------------------------------------------------------
(* Claims about the reconciliation step, checked under SpecTick            *)

Ticked == lastTick.decision # "none"

\* The forecast entries of the last tick that are more than the leeway away.
Candidates ==
    IF lastTick.forecast.ok
    THEN {i \in DOMAIN lastTick.forecast.val :
            lastTick.forecast.val[i] - (to_int(lastTick.leeway) * SecondsPerMinute) > 0}
    ELSE {}

TimeLeft(i) == lastTick.forecast.val[i] - (to_int(lastTick.leeway) * SecondsPerMinute)

\* The timetable has an entry between 1 and 59 seconds beyond the threshold
\* now + leeway * 60 of the last tick.
TimetableInWindow ==
    \E i \in DOMAIN lastTick.timetable :
       LET beyond == lastTick.timetable[i]
                       - (lastTick.time + (to_int(lastTick.leeway) * SecondsPerMinute))
       IN  0 < beyond /\ beyond < LeaveWindow

\* C6: on a tick whose forecast fetch fails the timetable fallback is still
\* evaluated: with a timetable entry in the window the watch fires via the
\* schedule path on that tick.
C6_FailedFetchFallsBack ==
    (Ticked /\ ~lastTick.forecast.ok /\ TimetableInWindow) => lastTick.decision = "schedule"

\* C7: on a tick whose forecast has a candidate but no candidate within the
\* leave window, the decision is keep-waiting whatever the timetable holds.
C7_LivePrecedence ==
    (Ticked /\ Candidates # {} /\ \A i \in Candidates : TimeLeft(i) >= LeaveWindow)
       => lastTick.decision = "wait"

\* A tick with a far candidate and a timetable entry in the window.
C7_FarCandidateTimetableInWindow ==
    /\ Ticked
    /\ Candidates # {}
    /\ \A i \in Candidates : TimeLeft(i) >= LeaveWindow
    /\ TimetableInWindow
    /\ lastTick.decision = "wait"

\* C8: on a tick whose forecast was fetched and has no candidate, the watch
\* fires via the schedule path exactly when a timetable entry t satisfies
\* 0 < t - (now + leeway * 60) < 60, and keeps waiting otherwise.
C8_FallbackWindow ==
    (Ticked /\ lastTick.forecast.ok /\ Candidates = {})
       => /\ lastTick.decision \in {"schedule", "wait"}
          /\ lastTick.decision = "schedule" <=> TimetableInWindow

\* A fallback tick that fires with its timetable entry 59 seconds beyond the
\* threshold of a one-minute leeway.
C8_FallbackFiresAt59 ==
    /\ Ticked
    /\ lastTick.forecast.ok
    /\ Candidates = {}
    /\ to_int(lastTick.leeway) = 1
    /\ \E i \in DOMAIN lastTick.timetable :
          lastTick.timetable[i] - (lastTick.time + SecondsPerMinute) = LeaveWindow - 1
    /\ lastTick.decision = "schedule"

\* C9: a watch started for any route, stop and direction reaches its polling
\* loop whatever the static timetable holds (an empty one, a route with no
\* trip records), and a tick whose forecast has a candidate within the leave
\* window fires via the live path.
C9_LiveFiresWhateverTheTimetable ==
    /\ \A t \in Tasks : task[t].pc # "failed_timetable"
    /\ (Ticked /\ \E i \in Candidates : TimeLeft(i) < LeaveWindow)
          => lastTick.decision = "live"

\* The scenario of C10: a leeway of two minutes, a forecast without entries
\* for the route, the timetable entry at t0 + 300 with t0 = 0.
C10_Scenario ==
    /\ Ticked
    /\ to_int(lastTick.leeway) = 2
    /\ lastTick.forecast = Ok(<<>>)
    /\ lastTick.timetable = <<300>>

\* C10 as stated: the tick at t0 + 300 - 179 keeps waiting and the tick at
\* t0 + 300 - 119 fires via the schedule path.
C10_AsStated ==
    C10_Scenario =>
       /\ lastTick.time = 300 - 179 => lastTick.decision = "wait"
       /\ lastTick.time = 300 - 119 => lastTick.decision = "schedule"

\* C10: in that scenario the tick at t0 + 300 - 179 (the entry is 59 seconds
\* beyond the threshold) fires via the schedule path and the tick at
\* t0 + 300 - 119 (the entry is behind the threshold) keeps waiting.
C10_ScheduleScenario ==
    C10_Scenario =>
       /\ lastTick.time = 300 - 179 => lastTick.decision = "schedule"
       /\ lastTick.time = 300 - 119 => lastTick.decision = "wait"

\* The later tick of the scenario: the watch kept waiting at t0 + 300 - 119.
C10_LaterTickWaits ==
    C10_Scenario /\ lastTick.time = 300 - 119 /\ lastTick.decision = "wait"

---------------------------------------------------------------------------
(* The polling specification: one chat starts watches for S2 or S1 on      *)
(* route "5"; the live endpoint keeps answering without a usable           *)
(* candidate; a forecast request takes as long as the endpoint takes to   *)
(* answer, and the task wakes when its sleep of PollPeriod seconds is      *)
(* over.                                                                   *)

LiveQueries == { Query("5", "S2", "0", 2), Query("5", "S1", "0", 2) }

\* Answers without a usable candidate: no entity, another route's arrival,
\* an arrival exactly one minute away (inside every leeway).
LiveResponses(route_id) ==
    { Ok(<<>>),
      Ok(<<Entity("other", <<Arrival(now + 179)>>)>>),
      Ok(<<Entity(route_id, <<Arrival(now + SecondsPerMinute)>>)>>) }

\* The clock starts 124 seconds before route "5" reaches S2, 4 seconds before
\* the window of a two-minute leeway closes, and runs for MaxLiveElapsed
\* seconds, beyond the end of that window.
LiveStart == 300 - (2 * SecondsPerMinute) - 4

\* A second passes, whatever the tasks and the handler await: the request of
\* arrival_forecast (gtfs.rs, lines 319-320) has no timeout and the clock
\* runs until its answer is there; the sleep of line 766 ends on time.
TimePasses(limit) ==
    /\ now < limit
    /\ \A t \in Tasks : task[t].pc = "sleep" => now < task[t].wake
    /\ now' = now + 1
    /\ UNCHANGED <<STATIC_FEED, dialogue, saved, POLL_TASKS, task, h, sent, cancelled, lastTick, call>>

InitLive ==
    /\ now = LiveStart
    /\ STATIC_FEED = FeedInUse
    /\ \E q \in LiveQueries :
         dialogue = St("SaveQuery", q.route_id, q.stop_id, q.direction, q.leeway, 0)
    /\ saved = <<>>
    /\ POLL_TASKS = <<>>
    /\ task = [t \in Tasks |-> NoTask]
    /\ h = Idle
    /\ sent = [t \in Tasks |-> <<>>]
    /\ cancelled = {}
    /\ lastTick = NoTick
    /\ call = NoCall

NextLive ==
    \/ dispatch_to({"save_query"})
    \/ save_query_yes
    \/ save_query_spawn
    \/ register_watch
    \/ enter_search
    \/ \E t \in Tasks : Watch(t, LiveResponses(task[t].q.route_id), FALSE)
    \/ TimePasses(LiveStart + MaxLiveElapsed)

\* The runtime keeps polling every spawned task and the clock keeps running,
\* whatever the chat sends meanwhile: each watch and the clock are weakly
\* fair on their own; the handlers are not.
SpecLive ==
    /\ InitLive
    /\ [][NextLive]_vars
    /\ \A t \in Tasks : WF_vars(Watch(t, LiveResponses(task[t].q.route_id), FALSE))
    /\ WF_vars(TimePasses(LiveStart + MaxLiveElapsed))

\* The timetable of task t has an entry beyond now + leeway * 60.
EntryAhead(t) ==
    \E i \in DOMAIN task[t].timetable :
       task[t].timetable[i] > now + (to_int(task[t].q.leeway) * SecondsPerMinute)

\* C11: a polling watch whose timetable has an entry later than
\* now + leeway * 60 and whose forecasts succeed without a usable candidate
\* eventually decides to notify via the schedule path, unless it is aborted
\* first; it does not skip over the firing window: as long as it polls and
\* sleeps, an entry stays later than now + leeway * 60.
C11_FallbackEventuallyFires ==
    /\ \A t \in Tasks :
          (task[t].pc = "poll" /\ EntryAhead(t))
             ~> (task[t].path = "schedule" \/ task[t].pc = "aborted")
    /\ [][\A t \in Tasks :
            (task[t].pc \in {"poll", "sleep"} /\ EntryAhead(t)
                /\ task'[t].pc \in {"poll", "sleep"}) => EntryAhead(t)']_vars

---------------------------------------------------------------------------
(* The query specification: the gtfs.rs queries called on a loaded feed    *)

QueryRoutes == {"5", "9", "7"}
QueryStops == {"S1", "S2"}
QueryDirections == {"0", "1"}

\* Decoded FeedMessages and a failed request.
QueryResponses(route_id) ==
    TickResponses(route_id)
    \cup {Ok(<<Entity(route_id, <<Arrival(now + 179), NoArrival, Arrival(now),
                                  Arrival(now - 5), Arrival(now + 179)>>),
               Entity("other", <<Arrival(now + 60)>>),
               BareEntity(route_id),
               Entity(route_id, <<Arrival(now + 30)>>)>>)}

InitQuery ==
    /\ now \in {0, 100, 250, 299, 300}
    /\ STATIC_FEED \in {FeedInUse, FeedTwoTrips}
    /\ dialogue = Plain("BotStart", 0)
    /\ saved = <<>>
    /\ POLL_TASKS = <<>>
    /\ task = [t \in Tasks |-> NoTask]
    /\ h = Idle
    /\ sent = [t \in Tasks |-> <<>>]
    /\ cancelled = {}
    /\ lastTick = NoTick
    /\ call = NoCall

Unqueried == <<now, STATIC_FEED, dialogue, saved, POLL_TASKS, task, h, sent, cancelled, lastTick>>

call_arrival_timetable ==
    /\ \E route_id \in QueryRoutes, direction \in QueryDirections, stop_id \in QueryStops :
         call' = [fn |-> "arrival_timetable", route_id |-> route_id, direction |-> direction,
                  stop_id |-> stop_id, timestamp |-> now,
                  result |-> arrival_timetable(STATIC_FEED, route_id, direction, stop_id, now)]
    /\ UNCHANGED Unqueried

call_stops_on_route ==
    /\ \E route_id \in QueryRoutes, direction \in QueryDirections :
         call' = [fn |-> "stops_on_route", route_id |-> route_id, direction |-> direction,
                  result |-> stops_on_route(STATIC_FEED, route_id, direction)]
    /\ UNCHANGED Unqueried

call_arrival_forecast ==
    /\ \E route_id \in QueryRoutes :
         \E response \in QueryResponses(route_id) :
            call' = [fn |-> "arrival_forecast", route_id |-> route_id, response |-> response,
                     timestamp |-> now,
                     result |-> arrival_forecast(response, route_id, now)]
    /\ UNCHANGED Unqueried

NextQuery ==
    \/ call_arrival_timetable
    \/ call_stops_on_route
    \/ call_arrival_forecast

SpecQuery == InitQuery /\ [][NextQuery]_vars

\* C12: a result of arrival_timetable is non-decreasing and every element is
\* strictly greater than the time of the query.
C12_TimetableSortedAndFuture ==
    (call.fn = "arrival_timetable" /\ call.result.ok) =>
       /\ \A i, j \in DOMAIN call.result.val : i < j => call.result.val[i] <= call.result.val[j]
       /\ \A i \in DOMAIN call.result.val : call.result.val[i] > call.timestamp

\* A timetable of three entries collected as 300, 250, 300 from two trips,
\* asked for at time 100.
C12_TwoTripsMerged ==
    /\ call.fn = "arrival_timetable"
    /\ call.timestamp = 100
    /\ call.result = Ok(<<250, 300, 300>>)

\* The trip list of the call's direction, for a route that has trips.
DirectionTrips ==
    IF call.direction = "0" THEN STATIC_FEED.trips[call.route_id].forward_trip
                            ELSE STATIC_FEED.trips[call.route_id].backward_trip

\* C13: arrival_timetable fails when the route id is absent from the trips
\* index and when the route's trip list for the direction is empty.
C13_NoTripsIsNotFound ==
    (/\ call.fn = "arrival_timetable"
     /\ \/ call.route_id \notin DOMAIN STATIC_FEED.trips
        \/ DirectionTrips = <<>>)
       => ~call.result.ok

\* C14: stops_on_route never aborts; it returns the stop ids, in stored
\* order, of the first trip of the direction's list that has stop times, and
\* an error when the route is unknown, the list is empty or no listed trip
\* has stop times.
C14_StopsOrNotFound ==
    call.fn = "stops_on_route" =>
       /\ ~call.result.panic
       /\ LET known == call.route_id \in DOMAIN STATIC_FEED.trips
              timed == IF known
                       THEN {i \in DOMAIN DirectionTrips :
                               DirectionTrips[i] \in DOMAIN STATIC_FEED.stop_times}
                       ELSE {}
          IN  IF timed = {} THEN ~call.result.ok
              ELSE LET first == CHOOSE i \in timed : \A k \in timed : i <= k
                       stops == STATIC_FEED.stop_times[DirectionTrips[first]]
                   IN  /\ call.result.ok
                       /\ call.result.val = [k \in DOMAIN stops |-> stops[k].stop_id]

\* The stop-time updates of the decoded message that count: the entity has the
\* wanted id, the update has an arrival time, the time lies ahead.
Counted ==
    UNION { { <<e, u>> : u \in { v \in DOMAIN call.response.val[e].stop_time_update :
                                   /\ call.response.val[e].stop_time_update[v].some
                                   /\ call.response.val[e].stop_time_update[v].time
                                        - call.timestamp > 0 } } :
            e \in { d \in DOMAIN call.response.val :
                      call.response.val[d].id = call.route_id } }

TimeLeftAt(p) == call.response.val[p[1]].stop_time_update[p[2]].time - call.timestamp

\* C20: for a decoded message arrival_forecast succeeds, and its result holds
\* exactly the values (arrival time - now) > 0 of the stop-time updates of the
\* entities with the wanted id, each as often as it occurs; without such a
\* value the result is the empty collection, not an error.
C20_ForecastValues ==
    (call.fn = "arrival_forecast" /\ call.response.ok) =>
       /\ call.result.ok
       /\ Len(call.result.val) = Cardinality(Counted)
       /\ \A p \in Counted :
            Cardinality({i \in DOMAIN call.result.val : call.result.val[i] = TimeLeftAt(p)})
               = Cardinality({r \in Counted : TimeLeftAt(r) = TimeLeftAt(p)})

\* A message with a repeated value, an update without arrival, arrivals now
\* and in the past, another route's entity and an entity without trip update.
C20_MixedMessage ==
    /\ call.fn = "arrival_forecast"
    /\ call.response.ok
    /\ call.timestamp > 0
    /\ call.result = Ok(<<179, 179, 30>>)

---------------------------------------------------------------------------
(* gtfs.rs: static_feed, the ingest of the archive.  A file is its name    *)
(* and its lines; a line is the sequence of its comma-separated fields; a  *)
(* piece of a split line is a run of fields.                               *)

\* StaticFeed::default()
StaticFeedDefault ==
    [ routes |-> [bus |-> <<>>, tram |-> <<>>, trolley |-> <<>>, all |-> <<>>],
      stops |-> <<>>, trips |-> <<>>, stop_times |-> <<>> ]

File(name, lines) == [name |-> name, lines |-> lines]

\* line.splitn(n, ','): at most n pieces, the last one takes the rest
splitn(n, line) ==
    IF Len(line) < n THEN [i \in 1..Len(line) |-> <<line[i]>>]
    ELSE [i \in 1..n |-> IF i < n THEN <<line[i]>> ELSE SubSeq(line, n, Len(line))]

\* text.rsplitn(n, ','): the same from the right, the last piece first
rsplitn(n, line) ==
    IF Len(line) < n THEN [i \in 1..Len(line) |-> <<line[Len(line) + 1 - i]>>]
    ELSE [i \in 1..n |-> IF i < n THEN <<line[Len(line) + 1 - i]>>
                                  ELSE SubSeq(line, 1, Len(line) + 1 - n)]

\* The text of a piece: its fields with the commas between them.
WithCommas == (<<"G", " H">> :> "G, H")
text(piece) == IF Len(piece) = 1 THEN piece[1] ELSE WithCommas[piece]

\* str::parse::<u32> and str::parse::<u8> on the texts of the rows in use
Decimal ==
    ("0" :> 0) @@ ("1" :> 1) @@ ("2" :> 2) @@ ("00" :> 0) @@ ("01" :> 1) @@ ("10" :> 10) @@
    ("23" :> 23) @@ ("24" :> 24) @@ ("25" :> 25) @@ ("48" :> 48) @@ ("59" :> 59) @@
    ("60" :> 60) @@ ("300" :> 300)
parse_u32(s) == IF s \in DOMAIN Decimal THEN Ok(Decimal[s]) ELSE Err
parse_u8(s) == IF s \in DOMAIN Decimal /\ Decimal[s] <= 255 THEN Ok(Decimal[s]) ELSE Err

\* l[1].split(':') on the times of the rows in use
SplitColon ==
    ("00:00:00" :> <<"00", "00", "00">>) @@ ("23:59:59" :> <<"23", "59", "59">>) @@
    ("24:00:00" :> <<"24", "00", "00">>) @@ ("25:10:00" :> <<"25", "10", "00">>) @@
    ("48:00:00" :> <<"48", "00", "00">>) @@ ("xx:10:00" :> <<"xx", "10", "00">>)

\* A variant that takes an unknown token for a bus.
from_str_Default(s) == IF s \in {"tram", "trolley"} THEN Ok(s) ELSE Ok("bus")

\* Vehicle::from_str
from_str(s) == IF s \in {"bus", "tram", "trolley"} THEN Ok(s) ELSE Err

\* The feed after a line, or the panic of an index out of bounds or an unwrap.
Fed(feed) == [feed |-> feed, panic |-> FALSE]
Panicked(feed) == [feed |-> feed, panic |-> TRUE]

\* routes.txt, lines 129-173
routes_line(feed, line) ==
    LET left == splitn(4, line)
    IN  IF Len(left) < 4 THEN Panicked(feed)                       \* left[3]
        ELSE LET right == rsplitn(6, left[4])
             IN  IF Len(right) < 6 THEN Panicked(feed)             \* right[5]
                 ELSE LET id == text(left[1])
                          name == text(right[6])
                          number == text(left[3])
                          vehicle == from_str(text(right[4]))
                          all == InsertKey(feed.routes.all, id, name)
                          info == [id |-> id, name |-> name]
                      IN  Fed([feed EXCEPT !.routes =
                                 IF vehicle.ok
                                 THEN [@ EXCEPT !.all = all,
                                                ![vehicle.val] = InsertKey(@, number, info)]
                                 ELSE [@ EXCEPT !.all = all]])

\* stops.txt, lines 179-189
stops_line(feed, line) ==
    LET left == splitn(3, line)
    IN  IF Len(left) < 3 THEN Panicked(feed)                       \* left[2]
        ELSE LET right == rsplitn(6, left[3])
             IN  IF Len(right) < 6 THEN Panicked(feed)             \* right[5]
                 ELSE Fed([feed EXCEPT !.stops =
                             InsertKey(@, text(left[1]), text(right[6]))])

\* HashMap::entry(key).or_insert_with(default)
or_insert_with(map, key, default) == IF key \in DOMAIN map THEN map ELSE InsertKey(map, key, default)

\* trips.txt, lines 195-214
trips_line(feed, l) ==
    IF Len(l) < 4 THEN Panicked(feed)                              \* l[2], l[3]
    ELSE LET direction == parse_u8(l[4])
         IN  IF ~direction.ok THEN Panicked(feed)                  \* unwrap()
             ELSE LET trips == or_insert_with(feed.trips, l[1],
                                   [forward_trip |-> <<>>, backward_trip |-> <<>>])
                  IN  Fed([feed EXCEPT !.trips =
                             IF direction.val = 0
                             THEN [trips EXCEPT ![l[1]].forward_trip = Append(@, l[3])]
                             ELSE [trips EXCEPT ![l[1]].backward_trip = Append(@, l[3])]])

\* The parsed components of a time: `.split(':').filter_map(|val| val.parse::<u32>().ok())`
parsed_hms(s) ==
    LET parts == SplitColon[s]
        kept == SelectSeq(parts, LAMBDA val : parse_u32(val).ok)
    IN  [i \in 1..Len(kept) |-> parse_u32(kept[i]).val]

\* lines 243-245: `if nextday { timestamp += 86400; }`
rollover(nextday) == IF nextday THEN SecondsPerDay ELSE 0

\* stop_times.txt, lines 221-255; `midnight` is date.and_hms(0, 0, 0).timestamp()
\* of the NaiveDate `date`.
stop_times_line(feed, l, midnight) ==
    IF Len(l) < 5 THEN Panicked(feed)                              \* l[3], l[4]
    ELSE IF ~parse_u8(l[5]).ok THEN Panicked(feed)                 \* unwrap()
    ELSE LET hms == parsed_hms(l[2])
         IN  IF Len(hms) < 3 THEN Panicked(feed)                   \* hms[0], hms[1], hms[2]
             ELSE LET nextday == hms[1] >= 24
                      hour == IF nextday THEN hms[1] - 24 ELSE hms[1]
                  IN  IF hour >= 24 \/ hms[2] >= 60 \/ hms[3] >= 60
                      THEN Panicked(feed)                          \* and_hms_opt(..).unwrap()
                      ELSE LET timestamp == midnight + (hour * 3600) + (hms[2] * 60) + hms[3]
                                              + rollover(nextday)
                               times == or_insert_with(feed.stop_times, l[1], <<>>)
                           IN  Fed([feed EXCEPT !.stop_times =
                                      [times EXCEPT ![l[1]] =
                                          Append(@, TripStop(timestamp, l[4],
                                                             parse_u8(l[5]).val))]])

\* One line of the file `name`.
file_line(name, feed, line, midnight) ==
    CASE name = "routes.txt" -> routes_line(feed, line)
      [] name = "stops.txt" -> stops_line(feed, line)
      [] name = "trips.txt" -> trips_line(feed, line)
      [] name = "stop_times.txt" -> stop_times_line(feed, line, midnight)
      [] OTHER -> Fed(feed)

\* `lines().for_each(..)`: a panic ends the ingest.
RECURSIVE for_each(_, _, _, _)
for_each(name, fed, lines, midnight) ==
    IF lines = <<>> \/ fed.panic THEN fed
    ELSE for_each(name, file_line(name, fed.feed, Head(lines), midnight), Tail(lines), midnight)

\* `.skip(1)`: the header line
skip1(lines) == IF lines = <<>> THEN <<>> ELSE Tail(lines)

\* `for i in 0..archive.len()`
RECURSIVE for_each_file(_, _, _)
for_each_file(fed, archive, midnight) ==
    IF archive = <<>> \/ fed.panic THEN fed
    ELSE for_each_file(for_each(Head(archive).name, fed, skip1(Head(archive).lines), midnight),
                       Tail(archive), midnight)

static_feed(archive, midnight) == for_each_file(Fed(StaticFeedDefault), archive, midnight)

---------------------------------------------------------------------------
(* The ingest specification: main loads the feed from an archive           *)

\* Rows as the publisher lays them out; `name` is the run of fields of a name
\* with commas in it.
RouteRow(id, number, name, token) == <<id, "ag", number>> \o name \o <<"3", token, "0", "1", "0">>
StopRow(id, name) == <<id, "code">> \o name \o <<"59.9", "30.3", "0", "1", "bus">>
TripRow(route_id, trip_id, direction) == <<route_id, "svc", trip_id, direction>>
StopTimeRow(trip_id, time, stop_id, seqno) == <<trip_id, time, time, stop_id, seqno>>

\* Two buses and a tram numbered "5", a trolley whose name has a comma, a
\* ferry, a row of three fields and a row without a name.
RoutesRows ==
    { RouteRow("r1", "5", <<"A - B">>, "bus"), RouteRow("r2", "5", <<"C - D">>, "bus"),
      RouteRow("r3", "5", <<"E - F">>, "tram"), RouteRow("r4", "7", <<"G", " H">>, "trolley"),
      RouteRow("r5", "8", <<"I">>, "ferry"),
      <<"r6", "ag", "9">>, <<"r7", "ag", "9", "3", "bus", "0", "1", "0">> }

StopsRows ==
    { StopRow("S1", <<"FIRST">>), StopRow("S1", <<"OTHER">>), StopRow("S2", <<"G", " H">>),
      <<"S3", "code">> }

TripsRows ==
    { TripRow("5", "T1", "0"), TripRow("5", "T2", "1"), TripRow("9", "T4", "0"),
      TripRow("5", "T3", "x"), <<"5", "svc">> }

StopTimesRows ==
    { StopTimeRow("T1", "00:00:00", "S1", "1"), StopTimeRow("T1", "23:59:59", "S2", "2"),
      StopTimeRow("T1", "24:00:00", "S2", "2"), StopTimeRow("T1", "25:10:00", "S2", "2"),
      StopTimeRow("T2", "48:00:00", "S1", "1"), StopTimeRow("T1", "xx:10:00", "S1", "1"),
      StopTimeRow("T1", "00:00:00", "S1", "300"), <<"T1", "00:00:00">> }

Header == <<"header">>

RowsUpTo(rows, n) == UNION {[1..k -> rows] : k \in 0..n}

\* Archives of one table, and one archive with every table and another file.
Archives ==
    {<<File("routes.txt", <<Header>> \o rows)>> : rows \in RowsUpTo(RoutesRows, MaxRows)}
    \cup {<<File("stops.txt", <<Header>> \o rows)>> : rows \in RowsUpTo(StopsRows, MaxRows)}
    \cup {<<File("trips.txt", <<Header>> \o rows)>> : rows \in RowsUpTo(TripsRows, MaxRows)}
    \cup {<<File("stop_times.txt", <<Header>> \o rows)>> :
            rows \in RowsUpTo(StopTimesRows, MaxRows)}
    \cup {<< File("agency.txt", <<Header, <<"ag">>>>),
             File("stop_times.txt", <<Header, StopTimeRow("T1", "25:10:00", "S2", "2")>>),
             File("trips.txt", <<Header, TripRow("5", "T1", "0")>>),
             File("stops.txt", <<Header, StopRow("S2", <<"G", " H">>)>>),
             File("routes.txt", <<Header, RouteRow("r1", "5", <<"A - B">>, "bus")>>) >>}

\* Two hours into the third day of the epoch.
IngestStart == (2 * SecondsPerDay) + (2 * SecondsPerMinute * SecondsPerMinute)

\* The time zone of the machine, in seconds east of UTC: UTC, Moscow time
\* (three hours ahead) and a zone five hours behind, where the local date of
\* IngestStart is still the day before.
UtcOffsets == {0, 3 * 3600, 0 - (5 * 3600)}

\* gtfs.rs, line 220 and lines 239-242: `Local::now().date_naive()` is the
\* date on the local wall clock, and NaiveDateTime::timestamp() counts its
\* midnight as if that wall clock showed UTC.
midnight_of(timestamp, offset) == ((timestamp + offset) \div SecondsPerDay) * SecondsPerDay

InitIngest ==
    /\ now = IngestStart
    /\ STATIC_FEED = StaticFeedDefault
    /\ dialogue = Plain("BotStart", 0)
    /\ saved = <<>>
    /\ POLL_TASKS = <<>>
    /\ task = [t \in Tasks |-> NoTask]
    /\ h = Idle
    /\ sent = [t \in Tasks |-> <<>>]
    /\ cancelled = {}
    /\ lastTick = NoTick
    /\ \E archive \in Archives, offset \in UtcOffsets :
         call = [fn |-> "static_feed", archive |-> archive, offset |-> offset,
                 returned |-> FALSE, panic |-> FALSE]

\* main.rs, lines 20-24: `*feed = gtfs::static_feed().await.unwrap()`
main_load ==
    /\ call.fn = "static_feed"
    /\ ~call.returned
    /\ LET fed == static_feed(call.archive, midnight_of(now, call.offset))
       IN  /\ STATIC_FEED' = IF fed.panic THEN STATIC_FEED ELSE fed.feed
           /\ call' = [call EXCEPT !.returned = TRUE, !.panic = fed.panic]
    /\ UNCHANGED <<now, dialogue, saved, POLL_TASKS, task, h, sent, cancelled, lastTick>>

NextIngest == main_load

SpecIngest == InitIngest /\ [][NextIngest]_vars

---------------------------------------------------------------------------
(* Claims about the ingest, checked under SpecIngest                       *)

Loaded == call.fn = "static_feed" /\ call.returned

\* The archive holds the table `name` alone.
Only(name) == call.fn = "static_feed" /\ Len(call.archive) = 1 /\ call.archive[1].name = name

\* The rows of the table `name` of the archive, without the header.
RowsOf(name) ==
    LET files == SelectSeq(call.archive, LAMBDA file : file.name = name)
    IN  IF files = <<>> THEN <<>> ELSE skip1(files[1].lines)

Classes == {"bus", "tram", "trolley"}

\* A routes row with its nine columns, the name possibly holding commas.
RouteShaped(row) == Len(row) >= 9
RouteIdOf(row) == row[1]
RouteNumberOf(row) == row[3]
RouteNameOf(row) == text(SubSeq(row, 4, Len(row) - 5))
TokenOf(row) == row[Len(row) - 3]

\* A stops row with its eight columns.
StopShaped(row) == Len(row) >= 8
StopNameOf(row) == text(SubSeq(row, 3, Len(row) - 5))

\* C15: of two routes rows with the same number in one class the class map
\* retains the RouteInfo of the first, and of two stops rows with the same
\* id the stops map retains the first name.
C15_FirstWins ==
    (Loaded /\ ~call.panic) =>
       /\ \A i \in DOMAIN RowsOf("routes.txt") :
            LET rows == RowsOf("routes.txt")
                row == rows[i]
            IN  (/\ RouteShaped(row)
                 /\ TokenOf(row) \in Classes
                 /\ \A k \in 1..(i - 1) :
                       ~(/\ RouteShaped(rows[k])
                         /\ TokenOf(rows[k]) = TokenOf(row)
                         /\ RouteNumberOf(rows[k]) = RouteNumberOf(row)))
                => STATIC_FEED.routes[TokenOf(row)][RouteNumberOf(row)]
                      = [id |-> RouteIdOf(row), name |-> RouteNameOf(row)]
       /\ \A i \in DOMAIN RowsOf("stops.txt") :
            LET rows == RowsOf("stops.txt")
                row == rows[i]
            IN  (/\ StopShaped(row)
                 /\ \A k \in 1..(i - 1) : ~(StopShaped(rows[k]) /\ rows[k][1] = row[1]))
                => STATIC_FEED.stops[row[1]] = StopNameOf(row)

\* C16: with every routes row well shaped the ingest completes; each class
\* map holds exactly the numbers of the rows with its token, so a row with
\* another token adds to no class map; the id-to-name map holds the id of
\* every row read.
C16_RowsIndexedByClass ==
    (Loaded /\ Only("routes.txt") /\ \A i \in DOMAIN RowsOf("routes.txt") :
                                       RouteShaped(RowsOf("routes.txt")[i]))
       => /\ ~call.panic
          /\ \A class \in Classes :
               DOMAIN STATIC_FEED.routes[class]
                  = {RouteNumberOf(RowsOf("routes.txt")[i]) :
                       i \in {k \in DOMAIN RowsOf("routes.txt") :
                                TokenOf(RowsOf("routes.txt")[k]) = class}}
          /\ DOMAIN STATIC_FEED.routes.all
                = {RouteIdOf(RowsOf("routes.txt")[i]) : i \in DOMAIN RowsOf("routes.txt")}

\* A bus, a ferry and a trolley were read: the ferry, between the two, is in
\* no class map.
C16_FerryBetweenBusAndTrolley ==
    /\ Loaded
    /\ Only("routes.txt")
    /\ ~call.panic
    /\ Len(RowsOf("routes.txt")) = 3
    /\ TokenOf(RowsOf("routes.txt")[1]) = "bus"
    /\ TokenOf(RowsOf("routes.txt")[2]) = "ferry"
    /\ TokenOf(RowsOf("routes.txt")[3]) = "trolley"
    /\ DOMAIN STATIC_FEED.routes.bus = {"5"}
    /\ DOMAIN STATIC_FEED.routes.trolley = {"7"}
    /\ DOMAIN STATIC_FEED.routes.tram = {}

\* C17: after an ingest a route number is a key of at most one of the three
\* class maps.
C17_NumberInOneClass ==
    Loaded =>
       \A number \in UNION {DOMAIN STATIC_FEED.routes[class] : class \in Classes} :
          Cardinality({class \in Classes : number \in DOMAIN STATIC_FEED.routes[class]}) <= 1


\* A stop_times row with its five columns, a sequence number and a time of
\* three numbers with minutes and seconds below sixty.
Timed(row) ==
    /\ Len(row) = 5
    /\ row[5] \in DOMAIN Decimal /\ Decimal[row[5]] <= 255
    /\ row[2] \in DOMAIN SplitColon
    /\ \A i \in 1..3 : SplitColon[row[2]][i] \in DOMAIN Decimal
    /\ Decimal[SplitColon[row[2]][2]] < 60
    /\ Decimal[SplitColon[row[2]][3]] < 60

HoursOf(row) == Decimal[SplitColon[row[2]][1]]
MinutesOf(row) == Decimal[SplitColon[row[2]][2]]
SecondsOf(row) == Decimal[SplitColon[row[2]][3]]

\* Midnight of D: the instant, in seconds of the epoch, at which the local
\* date of the ingest began on the machine's wall clock.
MidnightOfD == (((now + call.offset) \div SecondsPerDay) * SecondsPerDay) - call.offset

\* The instant the rollover rule gives a row on the ingest date.
RolledOver(row) ==
    IF HoursOf(row) >= 24
    THEN MidnightOfD + SecondsPerDay + ((HoursOf(row) - 24) * 3600)
            + (MinutesOf(row) * 60) + SecondsOf(row)
    ELSE MidnightOfD + (HoursOf(row) * 3600) + (MinutesOf(row) * 60) + SecondsOf(row)

\* C18: every stop_times row produces a TripStop, at midnight of the ingest
\* date plus HH:MM:SS when HH < 24, and at the next midnight plus
\* (HH - 24):MM:SS when HH >= 24.
C18_EveryRowRollsOver ==
    (Loaded /\ Only("stop_times.txt") /\ \A i \in DOMAIN RowsOf("stop_times.txt") :
                                           Timed(RowsOf("stop_times.txt")[i]))
       => /\ ~call.panic
          /\ \A i \in DOMAIN RowsOf("stop_times.txt") :
               LET trip_id == RowsOf("stop_times.txt")[i][1]
                   rows == SelectSeq(RowsOf("stop_times.txt"), LAMBDA row : row[1] = trip_id)
               IN  /\ trip_id \in DOMAIN STATIC_FEED.stop_times
                   /\ Len(STATIC_FEED.stop_times[trip_id]) = Len(rows)
                   /\ \A k \in DOMAIN rows :
                         STATIC_FEED.stop_times[trip_id][k].timestamp = RolledOver(rows[k])

\* C19: a row with too few fields is skipped: the ingest returns the feed,
\* and the well-shaped routes and stops rows around it are indexed.
C19_MalformedRowSkipped ==
    Loaded =>
       /\ ~call.panic
       /\ \A i \in DOMAIN RowsOf("routes.txt") :
            (RouteShaped(RowsOf("routes.txt")[i]) /\ TokenOf(RowsOf("routes.txt")[i]) \in Classes)
               => RouteIdOf(RowsOf("routes.txt")[i]) \in DOMAIN STATIC_FEED.routes.all
       /\ \A i \in DOMAIN RowsOf("stops.txt") :
            StopShaped(RowsOf("stops.txt")[i])
               => RowsOf("stops.txt")[i][1] \in DOMAIN STATIC_FEED.stops


---------------------------------------------------------------------------
(* Claims about the dialogue and the association table, checked under Spec *)

\* The task registered for the chat, where there is one.
Registered(t) == ChatId \in DOMAIN POLL_TASKS /\ POLL_TASKS[ChatId] = t

\* C22: once the registered watch has fired and stored State::Start, and the
\* handler that launched it has returned, the dialogue is not in Search.
C22_FiredWatchLeavesSearch ==
    \A t \in Tasks :
       (Registered(t) /\ task[t].pc = "ok" /\ sent[t] # <<>> /\ h = Idle)
          => dialogue.state # "Search"

\* C23: every entry of POLL_TASKS refers to a task that has neither returned
\* nor been aborted.
C23_EntriesAreWatching ==
    \A t \in Tasks : Registered(t) => Alive(task[t])

\* C24: while the registered task runs and no handler of the chat is in
\* progress, the dialogue is in Search.
C24_RunningWatchMeansSearch ==
    \A t \in Tasks :
       (Registered(t) /\ Alive(task[t]) /\ h = Idle) => dialogue.state = "Search"


\* The TripStops the call asks for: those of the trips of the direction, at
\* the stop, after the time of the call; <<i, k>> is the k-th TripStop of the
\* i-th trip of the list.
Wanted ==
    UNION { { <<i, k>> : k \in { n \in DOMAIN STATIC_FEED.stop_times[DirectionTrips[i]] :
                                   /\ STATIC_FEED.stop_times[DirectionTrips[i]][n].stop_id
                                        = call.stop_id
                                   /\ STATIC_FEED.stop_times[DirectionTrips[i]][n].timestamp
                                        > call.timestamp } } :
            i \in { d \in DOMAIN DirectionTrips :
                      DirectionTrips[d] \in DOMAIN STATIC_FEED.stop_times } }

WantedAt(p) == STATIC_FEED.stop_times[DirectionTrips[p[1]]][p[2]].timestamp

\* C25: with at least one trip in the direction arrival_timetable succeeds,
\* and its result holds exactly the timestamps of the wanted TripStops, each
\* as often as it occurs; a trip without stop times contributes nothing.
C25_EveryTimedTripCounts ==
    (/\ call.fn = "arrival_timetable"
     /\ call.route_id \in DOMAIN STATIC_FEED.trips
     /\ DirectionTrips # <<>>)
       => /\ call.result.ok
          /\ Len(call.result.val) = Cardinality(Wanted)
          /\ \A p \in Wanted :
               Cardinality({i \in DOMAIN call.result.val : call.result.val[i] = WantedAt(p)})
                  = Cardinality({r \in Wanted : WantedAt(r) = WantedAt(p)})


\* The callback data of the fixed buttons of the menus shown in NewOrSaved
\* (bot_start: "start"; start: "new_route", "delete").
MenuChoices == {"start", "new_route", "delete"}

\* C27: new_or_saved starts a watch only for callback data that is none of
\* the fixed menu choices: those lead to RouteNumber or DeleteRecord.
C27_MenuChoicesStartNoWatch ==
    [][(Running("new_or_saved") /\ h'.pc = "register") => h.data \notin MenuChoices]_vars


---------------------------------------------------------------------------
(* The dialogue specification: the handlers of the route dialogue, entered *)
(* at RouteStop for one of several routes                                  *)

\* The feed in use with a route "6" whose trips of either direction are
\* named in trips.txt and have no stop times.
FeedUntimed ==
    [FeedInUse EXCEPT !.routes.bus = @ @@ ("6" :> [id |-> "6", name |-> "E - F"]),
                      !.routes.all = @ @@ ("6" :> "E - F"),
                      !.trips = @ @@ ("6" :> [forward_trip |-> <<"T6">>,
                                              backward_trip |-> <<"T7">>])]

\* The route buttons of route_direction the user may have pressed.
DialogueRoutes == {"5", "9", "7", "6"}

InitDialogue ==
    /\ now = SchedStart
    /\ STATIC_FEED = FeedUntimed
    /\ \E route_id \in DialogueRoutes, bot_msg \in {0} \cup Tasks :
         dialogue = St("RouteStop", route_id, "", "", u64(0), bot_msg)
    /\ saved = <<>>
    /\ POLL_TASKS = <<>>
    /\ task = [t \in Tasks |-> NoTask]
    /\ h = Idle
    /\ sent = [t \in Tasks |-> <<>>]
    /\ cancelled = {}
    /\ lastTick = NoTick
    /\ call = NoCall

route_stop_observed == route_stop_on(TRUE)

NextDialogue ==
    \/ dispatch_to({"route_stop", "request_leeway_time", "receive_leeway_time", "bot_start",
                    "new_or_saved", "route_number", "route_direction", "delete_record"})
    \/ route_stop_observed
    \/ request_leeway_time
    \/ receive_leeway_time
    \/ bot_start
    \/ new_or_saved_menu
    \/ route_number
    \/ route_direction
    \/ delete_record
    \/ delete_record_finish
    \/ delete_message

SpecDialogue == InitDialogue /\ [][NextDialogue]_vars

Flipped(direction) == IF direction = "0" THEN "1" ELSE "0"

\* C26: a step of route_stop that got past answer_callback_query does not
\* panic; when stops_on_route fails for the direction pressed and succeeds
\* for the opposite one, the state stored carries the opposite direction;
\* when it fails for both, the handler returns an error and the dialogue is
\* left as it was.
C26_FlipRetry ==
    [][(Running("route_stop") /\ h' = Idle /\ call'.fn = "route_stop" /\ call'.answered)
          => LET chosen == stops_on_route(STATIC_FEED, h.from.route_id, h.data)
                 other == stops_on_route(STATIC_FEED, h.from.route_id, Flipped(h.data))
             IN  /\ call'.outcome # "panic"
                 /\ (chosen.ok /\ call'.outcome = "ok")
                       => /\ dialogue'.state = "RequestLeewayTime"
                          /\ dialogue'.direction = h.data
                 /\ (~chosen.ok /\ other.ok /\ call'.outcome = "ok")
                       => /\ dialogue'.state = "RequestLeewayTime"
                          /\ dialogue'.direction = Flipped(h.data)
                 /\ (~chosen.ok /\ ~other.ok)
                       => /\ call'.outcome = "error"
                          /\ dialogue' = dialogue]_vars


---------------------------------------------------------------------------
(* The leeway specification: the user types a text in ReceiveLeewayTime,   *)
(* receive_leeway_time parses it as u64 and stores it, save_query or       *)
(* save_query_name hands `leeway as i64` to a new task, and the task       *)
(* evaluates `x - (leeway * 60)` on every tick.                            *)

\* The texts the user types for the leeway: numbers up to the edges of i64
\* and u64, 2^64 and a word.
LeewayTexts == DOMAIN Typed \cup {"18446744073709551616", "x"}

\* The waiting times of a forecast.
LeewayWaits == {1, 59, 60, 300}

\* What the live endpoint answers: a failure, no entity, or the watched
\* route arriving in one of the waiting times.
LeewayResponses(route_id) ==
    {Err, Ok(<<>>)}
       \cup {Ok(<<Entity(route_id, <<Arrival(now + x)>>)>>) : x \in LeewayWaits}

InitLeeway ==
    /\ now = SchedStart
    /\ STATIC_FEED = FeedInUse
    /\ dialogue = St("ReceiveLeewayTime", "5", "S2", "0", u64(0), 0)
    /\ saved = <<>>
    /\ POLL_TASKS = <<>>
    /\ task = [t \in Tasks |-> NoTask]
    /\ h = Idle
    /\ sent = [t \in Tasks |-> <<>>]
    /\ cancelled = {}
    /\ lastTick = NoTick
    /\ call = NoCall

NextLeeway ==
    \/ dispatch_with({"receive_leeway_time", "save_query", "save_query_name"}, LeewayTexts)
    \/ receive_leeway_time
    \/ delete_message
    \/ save_query_yes
    \/ save_query_spawn
    \/ save_query_name_add
    \/ save_query_name_spawn
    \/ register_watch
    \/ enter_search
    \/ \E t \in Tasks : Watch(t, LeewayResponses(task[t].q.route_id), TRUE)
    \/ Advance(PollPeriod, SchedStart + MaxElapsed)

SpecLeeway == InitLeeway /\ [][NextLeeway]_vars

\* C28: a leeway accepted by receive_leeway_time reaches the watch that
\* save_query or save_query_name spawns as a non-negative i64 equal to the
\* number entered, and on no tick of a watch does leeway * 60 or
\* x - leeway * 60 overflow.
C28_LeewayFitsI64 ==
    [][/\ (h.name \in {"save_query", "save_query_name"} /\ h.pc # "register"
              /\ h'.pc = "register")
          => task'[h'.jh].q.leeway = [neg |-> FALSE, mag |-> h.from.leeway]
       /\ ~lastTick'.overflow.mul
       /\ ~lastTick'.overflow.sub]_vars


---------------------------------------------------------------------------
(* The startup specification: main takes the write guard, static_feed      *)
(* builds its local feed file by file, main stores the result, and only    *)
(* then the bot runs its handlers and tasks, which read STATIC_FEED.       *)

\* The archive of the service of route "5", and the same with a trips.txt row
\* that ends the ingest.
StartupArchive ==
    << File("agency.txt", <<Header, <<"ag">>>>),
       File("stop_times.txt", <<Header, StopTimeRow("T1", "23:59:59", "S2", "2")>>),
       File("trips.txt", <<Header, TripRow("5", "T1", "0")>>),
       File("stops.txt", <<Header, StopRow("S2", <<"SECOND">>)>>),
       File("routes.txt", <<Header, RouteRow("5", "5", <<"A - B">>, "bus")>>) >>

StartupArchives ==
    {StartupArchive,
     [StartupArchive EXCEPT ![3] = File("trips.txt", <<Header, TripRow("5", "T1", "x")>>)]}

\* The process starts on a host at UTC+3, the zone of the city the feed
\* describes; the ingest specification draws the offset from UtcOffsets.
InitStartup ==
    /\ now = SchedStart
    /\ STATIC_FEED = StaticFeedDefault
    /\ dialogue = Plain("BotStart", 0)
    /\ saved = <<>>
    /\ POLL_TASKS = <<>>
    /\ task = [t \in Tasks |-> NoTask]
    /\ h = Idle
    /\ sent = [t \in Tasks |-> <<>>]
    /\ cancelled = {}
    /\ lastTick = NoTick
    /\ \E archive \in StartupArchives :
         call = [fn |-> "static_feed", archive |-> archive, offset |-> 3 * 3600, at |-> 1,
                 feed |-> StaticFeedDefault, returned |-> FALSE, panic |-> FALSE]

\* A variant in which the shared feed is built in place.
Guarded_InPlace(shared, feed, returned) == feed

\* main.rs, lines 21-22: the feed behind the guard is assigned once, from the
\* value static_feed returns; until then it is what it was.
Guarded(shared, feed, returned) == IF returned THEN feed ELSE shared

\* gtfs.rs, lines 120-262: one file of the archive is read into the local
\* `feed` of static_feed; a panic ends the process.
static_feed_file ==
    /\ call.fn = "static_feed"
    /\ ~call.returned
    /\ call.at <= Len(call.archive)
    /\ LET file == call.archive[call.at]
           fed == for_each(file.name, Fed(call.feed), skip1(file.lines),
                           midnight_of(now, call.offset))
       IN  /\ call' = [call EXCEPT !.feed = fed.feed, !.at = @ + 1,
                                   !.panic = fed.panic, !.returned = fed.panic]
           /\ STATIC_FEED' = Guarded(STATIC_FEED, fed.feed, FALSE)
    /\ UNCHANGED <<now, dialogue, saved, POLL_TASKS, task, h, sent, cancelled, lastTick>>

\* gtfs.rs, line 265, and main.rs, line 22: `Ok(feed)` is stored
main_store ==
    /\ call.fn = "static_feed"
    /\ ~call.returned
    /\ call.at > Len(call.archive)
    /\ call' = [call EXCEPT !.returned = TRUE]
    /\ STATIC_FEED' = Guarded(STATIC_FEED, call.feed, TRUE)
    /\ UNCHANGED <<now, dialogue, saved, POLL_TASKS, task, h, sent, cancelled, lastTick>>

\* main.rs, line 25: tg_bot::bot() runs once the feed is stored.
BotRuns == call.fn = "static_feed" /\ call.returned /\ ~call.panic

NextStartup ==
    \/ static_feed_file
    \/ main_store
    \/ BotRuns /\ Next

SpecStartup == InitStartup /\ [][NextStartup]_vars

\* A handler or a task of the bot has started.
Reading ==
    \/ h # Idle
    \/ dialogue.state # "BotStart"
    \/ \E t \in Tasks : task[t].pc # "none"

\* C21: the shared feed is at every moment the initial empty feed or the feed
\* of the whole archive, and when a handler or a task reads it the ingest has
\* returned: it is the feed of the whole archive, which no handler and no
\* task changes.
C21_FeedIsWhole ==
    /\ STATIC_FEED \in {StaticFeedDefault,
                         static_feed(call.archive, midnight_of(now, call.offset)).feed}
    /\ Reading => (BotRuns /\ STATIC_FEED
                                = static_feed(call.archive, midnight_of(now, call.offset)).feed)

\* A task polls with the timetable it read from the ingested feed.
C21_TaskReadIngestedFeed ==
    /\ BotRuns
    /\ STATIC_FEED # StaticFeedDefault
    /\ \E t \in Tasks : task[t].pc = "poll" /\ task[t].timetable = <<86399>>

===========================================================================
